---- MODULE Spec2Model ----
(***************************************************************************)
(* Model of the cancer-data dashboard's service layer:                     *)
(*   app/services/database.py  DatabaseService                             *)
(*   app/services/cache.py     CacheService                                *)
(*   app/services/data.py      DataService                                 *)
(*   app/services/analytics.py AnalyticsService                            *)
(*                                                                         *)
(* Numbers.  Metric values are decimal numbers with one decimal place and  *)
(* are held as an integer count of tenths (100 stands for 10.0).  Derived  *)
(* numbers are exact rationals [n, d]; a float that numpy may make         *)
(* non-finite is [k, n, d] with k in "fin", "inf", "nan".  A number that   *)
(* is a square root is held by its sign and its square.  Floating-point    *)
(* rounding is not modelled.                                               *)
(*                                                                         *)
(* Python values.  None is the empty sequence and a present optional       *)
(* value x is <<x>>.  A dict is a record with a "kind" field naming its    *)
(* shape; an error object {'error': msg} is the record of kind "error".    *)
(* Message strings are sequences of string pieces.                         *)
(***************************************************************************)
EXTENDS Integers, Sequences, FiniteSets, TLC

VARIABLES
    db,          \* rows of incidence_and_mortality_by_state, in query order
    dbFailing,   \* TRUE while the database refuses queries
    dataCache,   \* DataService.cache_service._cache
    resultCache, \* AnalyticsService.cache_service._cache
    last,        \* the last call of a public operation: its cache key, whether it
                 \* was a cache hit, what it returned or raised, and, when the
                 \* implementation ran, the DataFrame it fetched, whether its try
                 \* block raised (failed, cause) and whether a query raised (dberr);
                 \* again: the call before it had the same key, and returned before
    budget,      \* calls left in this behaviour
    now,         \* the wall clock, in seconds
    reqs,        \* the requests being served at the same time, each with the
                 \* call it makes, where it stands in the cache wrappers and
                 \* what it holds in its local variables
    app,         \* a run of create_app: its arguments and environment, the line
                 \* it has reached, what it has built and what it raised
    conns        \* the calls of DatabaseService that use get_connection, each
                 \* with where it stands in its with-block, the connections it
                 \* opened and closed and the exception that left the block

vars == <<db, dbFailing, dataCache, resultCache, last, budget, now, reqs, app, conns>>

\* ------------------------------------------------------------------ bounds

MaxRows == 3
SmallRows == 2
MaxCalls == 2
LongRows == 22
CorrRows == 2
InterpretSteps == 50
MaxCacheOps == 4
MaxKeyCalls == 3
MaxTicks == 2
MaxConnCalls == 2

\* ---------------------------------------------------------------- constants

\* CacheService(default_timeout=300); cache_result(timeout=600) of the analytics
DefaultTimeout == 300
ResultTimeout == 600

\* ------------------------------------------------------------ input domains

States == {"A", "B"}
SmallStates == {"A"}
Years == {2018, 2019}
TrendYears == {2018, 2019, 2020}
Values == {0, 2, 100, 200}
SmallValues == {0, 100}
TopValues == {0, 100, 200}
CancerTypes == {"c1"}
Metrics == {"mortality_count", "mortality_rate", "incidence_rate", "incidence_count"}
MetricArgs == {"mortality_rate", "bogus"}
StateArgs == {<<>>, <<"A">>}
CancerTypeArgs == {<<>>, <<"c2">>}
YearArgs == {<<>>, <<2018>>}
LimitArgs == {-1, 0, 1, 2}
ThresholdArgs == {0, 1}
OutlierThresholdArgs == {0, 1, 2}
CorrValues == {0, 10}
FilterStateArgs == {<<>>, <<"">>, <<"A">>}
FilterYearArgs == {<<>>, <<0>>, <<2018>>}
FilterCancerTypeArgs == {<<>>, <<"">>, <<"c1">>}
TimeoutArgs == {<<>>, <<DefaultTimeout>>, <<ResultTimeout>>}
RawKeys == {<<"k1">>, <<"k2">>}
RawValues == {1, 2}
StatesArgs == {<<>>, <<"A">>, <<"A", "B">>, <<"B", "A">>, <<"A", "A">>, <<"A", "Z">>}

\* ------------------------------------------------------------ Python values

None == <<>>
Some(x) == <<x>>

\* bool(v) of an Optional[str] / Optional[int]
TruthyStr(v) == v # None /\ v[1] # ""
TruthyInt(v) == v # None /\ v[1] # 0

\* repr(v) as the pieces of its text: of None, a str, an int, a float with no
\* fraction, an Optional and a list of str
Digits == <<"0", "1", "2", "3", "4", "5", "6", "7", "8", "9">>

RECURSIVE ReprNat(_)
ReprNat(n) ==
    IF n < 10 THEN <<Digits[n + 1]>> ELSE ReprNat(n \div 10) \o <<Digits[(n % 10) + 1]>>

ReprInt(i) == IF i < 0 THEN <<"-">> \o ReprNat(-i) ELSE ReprNat(i)
ReprFloat(i) == ReprInt(i) \o <<".0">>
ReprStr(x) == <<"'", x, "'">>
ReprOptStr(v) == IF v = None THEN <<"None">> ELSE ReprStr(v[1])
ReprOptInt(v) == IF v = None THEN <<"None">> ELSE ReprInt(v[1])

RECURSIVE ReprItems(_)
ReprItems(reprs) ==
    IF reprs = <<>> THEN <<>>
    ELSE IF Len(reprs) = 1 THEN reprs[1]
    ELSE reprs[1] \o <<", ">> \o ReprItems(Tail(reprs))

ReprStrList(xs) == <<"[">> \o ReprItems([i \in 1..Len(xs) |-> ReprStr(xs[i])]) \o <<"]">>

\* str(args) of a tuple of positional arguments, given their reprs
StrTuple(reprs) ==
    IF Len(reprs) = 1 THEN <<"(">> \o reprs[1] \o <<",)">>
    ELSE <<"(">> \o ReprItems(reprs) \o <<")">>

Abs(x) == IF x < 0 THEN -x ELSE x
Sgn(x) == IF x < 0 THEN -1 ELSE IF x > 0 THEN 1 ELSE 0

RECURSIVE GCD(_, _)
GCD(a, b) == IF b = 0 THEN a ELSE GCD(b, a % b)

\* the rational n/d (d # 0) in lowest terms with a positive denominator
Q(n, d) ==
    LET g == GCD(Abs(n), Abs(d))
        s == IF d < 0 THEN -1 ELSE 1
    IN [n |-> (s * n) \div g, d |-> (s * d) \div g]

QInt(i) == [n |-> i, d |-> 1]
\* the arithmetic cancels common factors before it multiplies, to keep the
\* intermediate integers small
QAdd(a, b) ==
    LET g == GCD(a.d, b.d)
    IN Q(a.n * (b.d \div g) + b.n * (a.d \div g), (a.d \div g) * b.d)
QNeg(a) == [n |-> -a.n, d |-> a.d]
QSub(a, b) == QAdd(a, QNeg(b))
QMul(a, b) ==
    LET g1 == GCD(Abs(a.n), b.d)
        g2 == GCD(Abs(b.n), a.d)
    IN Q((a.n \div g1) * (b.n \div g2), (a.d \div g2) * (b.d \div g1))
QInv(b) == IF b.n < 0 THEN [n |-> -b.d, d |-> -b.n] ELSE [n |-> b.d, d |-> b.n]
QDiv(a, b) == QMul(a, QInv(b))
QLt(a, b) ==
    LET g == GCD(a.d, b.d)
    IN a.n * (b.d \div g) < b.n * (a.d \div g)
QLe(a, b) == ~QLt(b, a)

\* a metric value (tenths) as a rational
Tenths(v) == Q(v, 10)

\* numpy float64 values
Fin(q) == [k |-> "fin", n |-> q.n, d |-> q.d]
PosInf == [k |-> "inf", n |-> 1, d |-> 0]
NegInf == [k |-> "inf", n |-> -1, d |-> 0]
NaN == [k |-> "nan", n |-> 0, d |-> 0]

\* numpy float64 true division a / b of finite operands: a zero divisor gives
\* inf, -inf or nan with a RuntimeWarning, never ZeroDivisionError
\* faulty variant: a division guarded against a zero divisor
NpDiv_Guarded(a, b) == IF b.n # 0 THEN Fin(QDiv(a, b)) ELSE Fin(QInt(0))

NpDiv(a, b) ==
    IF b.n # 0 THEN Fin(QDiv(a, b))
    ELSE IF a.n > 0 THEN PosInf ELSE IF a.n < 0 THEN NegInf ELSE NaN

\* numpy float64 x * c for a finite c > 0
NpScale(x, c) == IF x.k = "fin" THEN Fin(QMul([n |-> x.n, d |-> x.d], QInt(c))) ELSE x

\* the square root of a rational q >= 0, held by its square
Sqrt(q) == [k |-> "sqrt", sgn |-> Sgn(q.n), sq |-> q]

\* ------------------------------------------------------------- sequences

Range(s) == {s[i] : i \in 1..Len(s)}

RECURSIVE SumIdx(_, _, _)
\* s[lo] + ... + s[hi], by halves
SumIdx(s, lo, hi) ==
    IF lo > hi THEN QInt(0)
    ELSE IF lo = hi THEN s[lo]
    ELSE LET mid == (lo + hi) \div 2
         IN QAdd(SumIdx(s, lo, mid), SumIdx(s, mid + 1, hi))

SumSeq(s) == SumIdx(s, 1, Len(s))

RECURSIVE SortedAsc(_)
\* the members of a finite set of integers in ascending order
SortedAsc(S) ==
    IF S = {} THEN <<>>
    ELSE LET m == CHOOSE x \in S : \A y \in S : x <= y
         IN <<m>> \o SortedAsc(S \ {m})

RECURSIVE SortedStr(_, _)
\* the members of a finite set of strings in the order of the sequence `order`
SortedStr(S, order) ==
    IF order = <<>> THEN <<>>
    ELSE (IF order[1] \in S THEN <<order[1]>> ELSE <<>>) \o SortedStr(S, Tail(order))

\* lexicographic order of the state names the model uses
StateOrder == <<"A", "B", "Z">>

Take(s, k) == SubSeq(s, 1, IF k < Len(s) THEN k ELSE Len(s))


RECURSIVE SumFn(_, _)
\* the sum of the rationals f[x] for x in the finite set of integers S, by halves
SumFn(f, S) ==
    IF S = {} THEN QInt(0)
    ELSE IF Cardinality(S) = 1 THEN f[CHOOSE x \in S : TRUE]
    ELSE LET p == CHOOSE x \in S : Cardinality({y \in S : y < x}) = Cardinality(S) \div 2
         IN QAdd(SumFn(f, {y \in S : y < p}), SumFn(f, {y \in S : y >= p}))

\* sum over i < j of (xs[j] - xs[i]) * (ys[j] - ys[i]); n times the centred
\* cross product sum, n = Len(xs)
PairSum(xs, ys) ==
    SumSeq([j \in 1..Len(xs) |->
        SumSeq([i \in 1..(j - 1) |-> QMul(QSub(xs[j], xs[i]), QSub(ys[j], ys[i]))])])

RECURSIVE OrderDesc(_, _)
\* the indices in S ordered by descending key, equal keys in index order
OrderDesc(keys, S) ==
    IF S = {} THEN <<>>
    ELSE LET b == CHOOSE i \in S : \A j \in S :
                     QLt(keys[j], keys[i]) \/ (~QLt(keys[i], keys[j]) /\ i <= j)
         IN <<b>> \o OrderDesc(keys, S \ {b})

\* sort_values(ascending=False) / sorted(reverse=True): descending, equal keys
\* in their original order (pandas sorts the reversed column and reverses the
\* result; numpy's default sort is stable for the short columns of the model)
SortDesc(s, keys) ==
    LET o == OrderDesc(keys, 1..Len(s)) IN [i \in 1..Len(s) |-> s[o[i]]]

\* ------------------------------------------------------------ DataFrames

AllCols == {"cancer_type", "year", "sex", "state",
            "mortality_count", "mortality_rate", "incidence_rate", "incidence_count"}

\* pd.DataFrame(): no columns, no rows
EmptyFrame == [cols |-> {}, rows |-> <<>>]

\* DataFrame.empty
IsEmpty(df) == df.cols = {} \/ df.rows = <<>>

\* A value put in the data cache is either a str (str: TRUE, the JSON records
\* it spells) or the DataFrame object itself (str: FALSE, frame).

\* faulty variant: the DataFrame itself is put in the cache
ToJson_SameObject(df) == [str |-> FALSE, frame |-> df]

\* df.to_json(orient='records'): a str, the list of row objects; the column
\* names of a frame without rows are not written
ToJson(df) == [str |-> TRUE, records |-> df.rows]

\* faulty variant: a read that keeps the first record only
ReadJson_FirstRecord(text) ==
    [cols |-> IF text.records = <<>> THEN {} ELSE DOMAIN text.records[1],
     rows |-> Take(text.records, 1)]

\* pd.read_json(text, orient='records') of a literal JSON text (pandas 1.x and
\* 2.x read it; the fallback of cache_dataframe that returns the text itself is
\* not entered): a new DataFrame whose columns are those of the row objects
ReadJson(text) ==
    [cols |-> IF text.records = <<>> THEN {} ELSE DOMAIN text.records[1],
     rows |-> text.records]

\* cache_dataframe on a hit: a str is read back, anything else is returned as
\* it is
FromCache(cached_result) ==
    IF cached_result.str THEN ReadJson(cached_result) ELSE cached_result.frame

\* a returned value / a raised exception of a function body
Ret(v) == [exc |-> FALSE, msg |-> <<>>, value |-> v]
Exc(m) == [exc |-> TRUE, msg |-> m, value |-> <<>>]

\* str(KeyError(name))
KeyErrorStr(name) == <<"'", name, "'">>
DbErrorStr == <<"could not connect to server">>

\* ---------------------------------------------------- DatabaseService

\* the rows the WHERE clause keeps: one equality per condition present
Matches(r, state, year, cancer_type) ==
    /\ (state # None => r.state = state[1])
    /\ (year # None => r.year = year[1])
    /\ (cancer_type # None => r.cancer_type = cancer_type[1])

\* get_dataframe: the query's rows in ORDER BY order, or the error psycopg2 raises
DbGetDataframe(failing, state, year, cancer_type) ==
    IF failing THEN Exc(DbErrorStr)
    ELSE Ret([cols |-> AllCols,
              rows |-> SelectSeq(db, LAMBDA r : Matches(r, state, year, cancer_type))])

\* execute_query: the rows as dicts, or the error psycopg2 raises
DbExecuteQuery(failing, rows) == IF failing THEN Exc(DbErrorStr) ELSE Ret(rows)

\* --------------------------------------------------------- CacheService

CacheGet(c, key) == IF key \in DOMAIN c THEN Some(c[key]) ELSE None
\* faulty variant: a write replaces the whole dict
CacheSet_Only(c, key, value) == [k \in {key} |-> value]

\* set(key, value, timeout): self._cache[key] = value; the timeout is not used
CacheSet(c, key, value) ==
    [k \in DOMAIN c \cup {key} |-> IF k = key THEN value ELSE c[k]]

\* faulty variant: delete empties the cache
CacheDelete_All(c, key) == <<>>

\* delete(key): del self._cache[key] when the key is there
CacheDelete(c, key) == [k \in DOMAIN c \ {key} |-> c[k]]

\* clear(): self._cache.clear()
CacheClear(c) == <<>>

\* the names of the keyword arguments the operations take, in sorted order
KwOrder == <<"cancer_type", "limit", "metric", "state", "states", "threshold", "year">>

\* str(sorted(kwargs.items())): kwargs maps the names passed to their reprs
StrSortedItems(kwargs) ==
    LET names == SelectSeq(KwOrder, LAMBDA n : n \in DOMAIN kwargs)
    IN <<"[">> \o ReprItems([i \in 1..Len(names) |->
                    <<"(">> \o ReprStr(names[i]) \o <<", ">> \o kwargs[names[i]] \o <<")">>])
            \o <<"]">>

\* faulty variant: the keyword arguments are left out of the key
GenerateKey_ArgsOnly(func_name, args, kwargs) ==
    <<func_name, ":">> \o StrTuple(args)

\* cache_key = f"{func.__name__}:{_generate_key(*args, **kwargs)}" with
\* _generate_key = md5(str(args) + str(sorted(kwargs.items()))); the key is held
\* as the text that is hashed, md5 being taken as free of collisions
GenerateKey(func_name, args, kwargs) ==
    <<func_name, ":">> \o StrTuple(args) \o StrSortedItems(kwargs)

\* the key of get_cancer_data called with the keyword arguments named in kw
DataKey(kw, state, year, cancer_type) ==
    LET all == [state |-> ReprOptStr(state), year |-> ReprOptInt(year),
                cancer_type |-> ReprOptStr(cancer_type)]
    IN GenerateKey("_get_cancer_data_impl", <<>>, [n \in kw |-> all[n]])

\* ---------------------------------------------------------- DataService

\* _get_cancer_data_impl: a falsy filter adds no condition; any exception of
\* the query is logged and an empty DataFrame returned
GetCancerDataImpl(failing, state, year, cancer_type) ==
    LET q == DbGetDataframe(failing,
                 IF TruthyStr(state) THEN state ELSE None,
                 IF TruthyInt(year) THEN year ELSE None,
                 IF TruthyStr(cancer_type) THEN cancer_type ELSE None)
    IN IF q.exc THEN EmptyFrame ELSE q.value

\* get_cancer_data = cache_dataframe(_get_cancer_data_impl) called with the
\* keyword arguments kw; gives the DataFrame and the cache afterwards (dberr
\* notes that the query was made and raised; shared: the DataFrame returned is
\* the very object the cache holds under the key)
GetCancerData(dc, failing, kw, state, year, cancer_type) ==
    LET key == DataKey(kw, state, year, cancer_type)
        cached == CacheGet(dc, key)
    IN IF cached # None
       THEN [df |-> FromCache(cached[1]), cache |-> dc, dberr |-> FALSE,
             key |-> key, shared |-> ~cached[1].str]
       ELSE LET result == GetCancerDataImpl(failing, state, year, cancer_type)
                serialized == ToJson(result)
            IN [df |-> result, cache |-> CacheSet(dc, key, serialized),
                dberr |-> failing, key |-> key, shared |-> ~serialized.str]

\* ----------------------------------------------------- AnalyticsService

ErrorObj(msg) == [kind |-> "error", error |-> msg]

\* df[metric].mean() over the given rows (a non-empty sequence)
MeanOf(rows, metric) ==
    QDiv(SumSeq([i \in 1..Len(rows) |-> Tenths(rows[i][metric])]), QInt(Len(rows)))

\* data.groupby('year')[metric].mean().reset_index(): one row per year, ascending
YearlyData(df, metric) ==
    LET ys == SortedAsc({r.year : r \in Range(df.rows)})
    IN [i \in 1..Len(ys) |->
          [year |-> ys[i],
           value |-> MeanOf(SelectSeq(df.rows, LAMBDA r : r.year = ys[i]), metric)]]

\* np.polyfit(x, y, 1)[0]: the least-squares slope
PolyfitSlope(x, y) == QDiv(PairSum(x, y), PairSum(x, x))

\* faulty variant: a column against itself always gives 1
CorrCoef_SelfIsOne(x, y) ==
    LET sxy == PairSum(x, y)
        sxx == PairSum(x, x)
        syy == PairSum(y, y)
    IN IF x = y THEN [k |-> "sqrt", sgn |-> 1, sq |-> QInt(1)]
       ELSE IF sxx.n = 0 \/ syy.n = 0 THEN [k |-> "nan", sgn |-> 0, sq |-> QInt(0)]
       ELSE [k |-> "sqrt", sgn |-> Sgn(sxy.n), sq |-> QMul(QDiv(sxy, sxx), QDiv(sxy, syy))]

\* np.corrcoef(x, y)[0, 1]: nan when either variance is 0
CorrCoef(x, y) ==
    LET sxy == PairSum(x, y)
        sxx == PairSum(x, x)
        syy == PairSum(y, y)
    IN IF sxx.n = 0 \/ syy.n = 0 THEN [k |-> "nan", sgn |-> 0, sq |-> QInt(0)]
       ELSE [k |-> "sqrt", sgn |-> Sgn(sxy.n), sq |-> QMul(QDiv(sxy, sxx), QDiv(sxy, syy))]

\* np.std(y): population standard deviation
NpStd(y) == Sqrt(QDiv(PairSum(y, y), QInt(Len(y) * Len(y))))

\* faulty variant: the thresholds themselves count as a trend
TrendDirection_Inclusive(slope) ==
    IF QLe(Q(1, 10), slope) THEN "increasing"
    ELSE IF QLe(slope, Q(-1, 10)) THEN "decreasing"
    ELSE "stable"

\* slope > 0.1 / slope < -0.1 / else
TrendDirection(slope) ==
    IF QLt(Q(1, 10), slope) THEN "increasing"
    ELSE IF QLt(slope, Q(-1, 10)) THEN "decreasing"
    ELSE "stable"

\* faulty variant: the change taken relative to the last value
PercentChange_OfLast(first_year_value, last_year_value) ==
    NpScale(NpDiv(QSub(last_year_value, first_year_value), last_year_value), 100)

\* ((last_year_value - first_year_value) / first_year_value) * 100
PercentChange(first_year_value, last_year_value) ==
    NpScale(NpDiv(QSub(last_year_value, first_year_value), first_year_value), 100)

\* faulty variant: two years are not enough
TooFewYears_AtMost2(n) == n <= 2

\* len(yearly_data) < 2
TooFewYears(n) == n < 2

\* the try block of _calculate_trends_impl over the fetched DataFrame
TrendsBody(df, metric) ==
    IF IsEmpty(df) THEN Ret(ErrorObj(<<"No data available">>))
    ELSE IF metric \notin df.cols THEN Exc(KeyErrorStr(metric))
    ELSE
    LET yearly_data == YearlyData(df, metric)
        n == Len(yearly_data)
        x == [i \in 1..n |-> QInt(yearly_data[i].year)]
        y == [i \in 1..n |-> yearly_data[i].value]
        slope == PolyfitSlope(x, y)
        first_year_value == y[1]
        last_year_value == y[n]
        percent_change == PercentChange(first_year_value, last_year_value)
    IN IF TooFewYears(n) THEN Ret(ErrorObj(<<"Insufficient data for trend analysis">>))
       ELSE Ret([kind |-> "trend",
                 trend_direction |-> TrendDirection(slope),
                 slope |-> slope,
                 correlation |-> CorrCoef(x, y),
                 percent_change |-> percent_change,
                 years_analyzed |-> n,
                 first_year |-> yearly_data[1].year,
                 last_year |-> yearly_data[n].year,
                 first_value |-> first_year_value,
                 last_value |-> last_year_value,
                 mean_value |-> QDiv(SumSeq(y), QInt(n)),
                 std_value |-> NpStd(y)])

\* what an operation's implementation gives: a returned value or a raised
\* exception, whether its try block raised (failed) and with what (cause), the
\* data cache afterwards, and the DataFrame it worked on
\* try: body / except Exception: return onExc
Try(body, onExc) == IF body.exc THEN Ret(onExc) ELSE body

ImplOut(body, b, fetched) ==
    [raised |-> b.exc, msg |-> b.msg, value |-> b.value,
     failed |-> body.exc, cause |-> body.msg,
     dcache |-> fetched.cache, df |-> fetched.df, dberr |-> fetched.dberr]

\* faulty variant: the implementation without its except clause
CalculateTrendsImpl_NoExcept(dc, failing, state, cancer_type, metric) ==
    LET fetched == GetCancerData(dc, failing, {"state", "cancer_type"}, state, None, cancer_type)
        b == TrendsBody(fetched.df, metric)
    IN ImplOut(b, b, fetched)

\* _calculate_trends_impl: except Exception -> {'error': str(e)}
CalculateTrendsImpl(dc, failing, state, cancer_type, metric) ==
    LET fetched == GetCancerData(dc, failing, {"state", "cancer_type"}, state, None, cancer_type)
        b == TrendsBody(fetched.df, metric)
    IN ImplOut(b, Try(b, ErrorObj(b.msg)), fetched)

\* faulty variant: no truncation
DfHead_Whole(s, n) == s

\* DataFrame.head(n): the first n rows, or all but the last -n when n < 0
DfHead(s, n) == IF n >= 0 THEN Take(s, n) ELSE Take(s, IF Len(s) + n > 0 THEN Len(s) + n ELSE 0)

\* data.groupby('state')[metric].mean().reset_index(): one row per state, in
\* name order
StateData(rows, metric) ==
    LET ss == SortedStr({r.state : r \in Range(rows)}, StateOrder)
    IN [i \in 1..Len(ss) |->
          [state |-> ss[i],
           value |-> MeanOf(SelectSeq(rows, LAMBDA r : r.state = ss[i]), metric)]]

\* faulty variant: the earliest year instead of the latest
MaxYear_Earliest(rows) == CHOOSE m \in {r.year : r \in Range(rows)} :
                              \A r \in Range(rows) : m <= r.year

\* data['year'].max()
MaxYear(rows) == CHOOSE m \in {r.year : r \in Range(rows)} :
                     \A r \in Range(rows) : r.year <= m

ListObj(items) == [kind |-> "list", items |-> items]

\* _get_top_states_impl from `if year is None` on, over a non-empty DataFrame; a
\* record of the result is {'state': s, metric: v}, held as [state, value]
TopStatesOf(df, metric, year, limit) ==
    LET data == IF year = None
                THEN SelectSeq(df.rows, LAMBDA r : r.year = MaxYear(df.rows))
                ELSE df.rows
        state_data == StateData(data, metric)
        sorted == SortDesc(state_data, [i \in 1..Len(state_data) |-> state_data[i].value])
    IN IF metric \notin df.cols THEN Exc(KeyErrorStr(metric))
       ELSE Ret(ListObj(DfHead(sorted, limit)))

\* faulty variant: an empty DataFrame reported as an error
TopStatesBody_ErrorOnEmpty(df, metric, year, limit) ==
    IF IsEmpty(df) THEN Ret(ErrorObj(<<"No data available">>))
    ELSE TopStatesOf(df, metric, year, limit)

\* the try block of _get_top_states_impl over the fetched DataFrame
TopStatesBody(df, metric, year, limit) ==
    IF IsEmpty(df) THEN Ret(ListObj(<<>>)) ELSE TopStatesOf(df, metric, year, limit)

\* _get_top_states_impl: except Exception -> []
GetTopStatesImpl(dc, failing, metric, cancer_type, year, limit) ==
    LET fetched == GetCancerData(dc, failing, {"cancer_type", "year"}, None, year, cancer_type)
        b == TopStatesBody(fetched.df, metric, year, limit)
    IN ImplOut(b, Try(b, ListObj(<<>>)), fetched)


\* the metric column of the rows as rationals
Column(rows, metric) == [i \in 1..Len(rows) |-> Tenths(rows[i][metric])]

\* faulty variant: the population variance (divisor N)
SampleVar_Population(v) == QDiv(PairSum(v, v), QInt(Len(v) * Len(v)))

\* Series.std(): sample standard deviation (ddof = 1), nan for a single value
SampleVar(v) == QDiv(PairSum(v, v), QInt(Len(v) * (Len(v) - 1)))
SeriesStd(v) ==
    IF Len(v) < 2 THEN [k |-> "nan", sgn |-> 0, sq |-> QInt(0)] ELSE Sqrt(SampleVar(v))

\* the values in ascending order
SortedVals(v) ==
    LET neg == [i \in 1..Len(v) |-> QSub(QInt(0), v[i])]
    IN SortDesc(v, neg)

\* Series.median()
Median(v) ==
    LET sv == SortedVals(v)
        n == Len(v)
    IN IF n % 2 = 1 THEN sv[(n + 1) \div 2]
       ELSE QDiv(QAdd(sv[n \div 2], sv[n \div 2 + 1]), QInt(2))

\* the summary statistics of one state's rows (a non-empty DataFrame)
StateStats(state, df, metric) ==
    LET v == Column(df.rows, metric)
        sv == SortedVals(v)
    IN [state |-> state,
        mean |-> MeanOf(df.rows, metric),
        median |-> Median(v),
        min |-> sv[1],
        max |-> sv[Len(sv)],
        std |-> SeriesStd(v),
        latest_value |-> MeanOf(SelectSeq(df.rows, LAMBDA r : r.year = MaxYear(df.rows)), metric),
        records_count |-> Len(df.rows),
        rank_by_mean |-> 0]

\* faulty variant: every assignment adds an entry
DictPut_Append(d, e) == Append(d, e)

\* comparison_data[state] = stats: a dict keeps the place of a key's first
\* insertion and the value of its last
DictPut(d, e) ==
    IF \E i \in 1..Len(d) : d[i].state = e.state
    THEN [i \in 1..Len(d) |-> IF d[i].state = e.state THEN e ELSE d[i]]
    ELSE Append(d, e)

RECURSIVE CompareLoop(_, _, _, _, _, _, _, _)
\* the for loop of _compare_states_impl from states[i] on
CompareLoop(states, i, dc, failing, metric, cancer_type, acc, dberr) ==
    IF i > Len(states)
    THEN [exc |-> FALSE, msg |-> <<>>, data |-> acc, cache |-> dc, dberr |-> dberr]
    ELSE
    LET fetched == GetCancerData(dc, failing, {"state", "cancer_type"},
                                 Some(states[i]), None, cancer_type)
        e == dberr \/ fetched.dberr
    IN IF IsEmpty(fetched.df)
       THEN CompareLoop(states, i + 1, fetched.cache, failing, metric, cancer_type, acc, e)
       ELSE IF metric \notin fetched.df.cols
       THEN [exc |-> TRUE, msg |-> KeyErrorStr(metric), data |-> acc,
             cache |-> fetched.cache, dberr |-> e]
       ELSE CompareLoop(states, i + 1, fetched.cache, failing, metric, cancer_type,
                        DictPut(acc, StateStats(states[i], fetched.df, metric)), e)

\* faulty variant: states with equal means share a rank
Ranked_Dense(d) ==
    [i \in 1..Len(d) |->
        [d[i] EXCEPT !.rank_by_mean =
            1 + Cardinality({j \in 1..Len(d) : QLt(d[i].mean, d[j].mean)})]]

\* rank_by_mean: the place in sorted(items, key=mean, reverse=True)
Ranked(d) ==
    LET o == OrderDesc([i \in 1..Len(d) |-> d[i].mean], 1..Len(d))
    IN [i \in 1..Len(d) |->
          [d[i] EXCEPT !.rank_by_mean = CHOOSE r \in 1..Len(d) : o[r] = i]]

\* max(values, key=mean)['mean'] / min(...) of a non-empty comparison_data
HighestMean(d) == (CHOOSE e \in Range(d) : \A f \in Range(d) : QLe(f.mean, e.mean)).mean
LowestMean(d) == (CHOOSE e \in Range(d) : \A f \in Range(d) : QLe(e.mean, f.mean)).mean

\* the dict _compare_states_impl returns, comparison_data being ranked
Comparison(comparison_data, states, metric, cancer_type) ==
    [kind |-> "comparison",
     states_compared |-> states,
     metric |-> metric,
     cancer_type |-> cancer_type,
     comparison_data |-> comparison_data,
     summary |->
       [highest_mean |-> IF comparison_data # <<>>
                         THEN HighestMean(comparison_data) ELSE QInt(0),
        lowest_mean |-> IF comparison_data # <<>>
                        THEN LowestMean(comparison_data) ELSE QInt(0),
        states_count |-> Len(comparison_data)]]

\* _compare_states_impl once its loop over the states has ended as `loop`
CompareReturn(loop, states, metric, cancer_type) ==
    LET b == IF loop.exc THEN Exc(loop.msg)
             ELSE Ret(Comparison(Ranked(loop.data), states, metric, cancer_type))
    IN ImplOut(b, Try(b, ErrorObj(b.msg)),
               [cache |-> loop.cache, df |-> EmptyFrame, dberr |-> loop.dberr])

\* _compare_states_impl: except Exception -> {'error': str(e)}
CompareStatesImpl(dc, failing, states, metric, cancer_type) ==
    CompareReturn(CompareLoop(states, 1, dc, failing, metric, cancer_type, <<>>, FALSE),
                  states, metric, cancer_type)

\* outliers.head(20)
OutlierLimit == 20

\* z > threshold for z = |v - mean| / std, std = sqrt(var) > 0
ZAbove(dev, var, threshold) ==
    threshold < 0 \/ QLt(QMul(QInt(threshold * threshold), var), QMul(dev, dev))

\* np.abs((data[metric] - mean_val) / std_val), the std being no 0
ZScores(df, metric) ==
    LET v == Column(df.rows, metric)
        n == Len(v)
        mean_val == MeanOf(df.rows, metric)
        std_val == SeriesStd(v)
        var == IF n < 2 THEN QInt(0) ELSE SampleVar(v)
    IN [i \in 1..n |->
          IF std_val.k = "nan" THEN [k |-> "nan", sgn |-> 0, sq |-> QInt(0)]
          ELSE LET dev == QSub(v[i], mean_val) IN Sqrt(QDiv(QMul(dev, dev), var))]

\* _get_outliers_impl from the z-scores on, over a non-empty DataFrame (rows of
\* equal z_score are kept in table order; the claims about the list do not
\* depend on the order among them)
OutliersOf(df, metric, threshold) ==
    IF metric \notin df.cols THEN Exc(KeyErrorStr(metric))
    ELSE
    LET v == Column(df.rows, metric)
        n == Len(v)
        mean_val == MeanOf(df.rows, metric)
        std_val == SeriesStd(v)
        var == IF n < 2 THEN QInt(0) ELSE SampleVar(v)
        dev == [i \in 1..n |-> QSub(v[i], mean_val)]
        z == ZScores(df, metric)
        idx == SelectSeq([i \in 1..n |-> i],
                         LAMBDA i : std_val.k # "nan" /\ ZAbove(dev[i], var, threshold))
        sorted == SortDesc(idx, [j \in 1..Len(idx) |-> z[idx[j]].sq])
        top == DfHead(sorted, OutlierLimit)
    IN IF std_val.k = "sqrt" /\ std_val.sgn = 0
       THEN Ret([kind |-> "outliers_note", outliers |-> <<>>, total_records |-> n,
                 note |-> <<"No variation in data">>])
       ELSE Ret([kind |-> "outliers",
                 outliers |-> [j \in 1..Len(top) |->
                     [state |-> df.rows[top[j]].state,
                      year |-> df.rows[top[j]].year,
                      cancer_type |-> df.rows[top[j]].cancer_type,
                      value |-> v[top[j]],
                      z_score |-> z[top[j]],
                      deviation_from_mean |-> dev[top[j]]]],
                 total_outliers |-> Len(idx),
                 total_records |-> n,
                 threshold |-> threshold,
                 metric |-> metric,
                 dataset_mean |-> mean_val,
                 dataset_std |-> std_val])

\* {'outliers': [], 'total_records': 0}
NoOutliers == [kind |-> "outliers_empty", outliers |-> <<>>, total_records |-> 0]

\* faulty variant: an empty DataFrame reported as an error
OutliersBody_ErrorOnEmpty(df, metric, threshold) ==
    IF IsEmpty(df) THEN Ret(ErrorObj(<<"No data available">>))
    ELSE OutliersOf(df, metric, threshold)

\* the try block of _get_outliers_impl over the fetched DataFrame
OutliersBody(df, metric, threshold) ==
    IF IsEmpty(df) THEN Ret(NoOutliers) ELSE OutliersOf(df, metric, threshold)

\* the DataFrame object `data` as the try block of _get_outliers_impl leaves it
\* when it ends as b: with the column z_score once data['z_score'] = ... has run
WithZScore(df, metric, b) ==
    LET z == ZScores(df, metric)
    IN IF ~b.exc /\ b.value.kind = "outliers"
       THEN [cols |-> df.cols \cup {"z_score"},
             rows |-> [i \in 1..Len(df.rows) |->
                         [c \in DOMAIN df.rows[i] \cup {"z_score"} |->
                             IF c = "z_score" THEN z[i] ELSE df.rows[i][c]]]]
       ELSE df

\* an assignment into a DataFrame changes the object in place: a cache that
\* holds the very object holds it changed
InPlace(fetched, changed) ==
    IF fetched.shared
    THEN [fetched EXCEPT !.df = changed,
                         !.cache = CacheSet(fetched.cache, fetched.key,
                                            [str |-> FALSE, frame |-> changed])]
    ELSE [fetched EXCEPT !.df = changed]

\* _get_outliers_impl once its try block over the fetched DataFrame has ended
\* as b
OutliersReturn(fetched, b, metric) ==
    ImplOut(b, Try(b, ErrorObj(b.msg)),
            [InPlace(fetched, WithZScore(fetched.df, metric, b)) EXCEPT !.df = fetched.df])

\* _get_outliers_impl: except Exception -> {'error': str(e)}
GetOutliersImpl(dc, failing, metric, threshold) ==
    LET fetched == GetCancerData(dc, failing, {}, None, None, None)
    IN OutliersReturn(fetched, OutliersBody(fetched.df, metric, threshold), metric)

\* numeric_cols of _get_correlations_impl, in its order
NumericCols == <<"mortality_count", "mortality_rate", "incidence_rate", "incidence_count">>

\* _interpret_correlation: every comparison with nan is False
InterpretCorrelation(r) ==
    LET atLeast(p, q) == r.k = "sqrt" /\ QLe(Q(p * p, q * q), r.sq)
        strength == IF atLeast(8, 10) THEN "very strong"
                    ELSE IF atLeast(6, 10) THEN "strong"
                    ELSE IF atLeast(4, 10) THEN "moderate"
                    ELSE IF atLeast(2, 10) THEN "weak"
                    ELSE "very weak"
        direction == IF r.k = "sqrt" /\ r.sgn > 0 THEN "positive" ELSE "negative"
    IN <<strength, " ", direction, " correlation">>

\* DataFrame.corr(): Pearson, nan where a column has no variance
CorrMatrix(df) ==
    [a \in Range(NumericCols) |-> [b \in Range(NumericCols) |->
        CorrCoef(Column(df.rows, a), Column(df.rows, b))]]

\* faulty variant: every pair of different columns, both ways round
UpperTriangle_Both(i, j) == i # j

\* if i < j: only the upper triangle
UpperTriangle(i, j) == i < j

\* the try block of _get_correlations_impl over the fetched DataFrame
CorrelationsBody(df) ==
    IF IsEmpty(df) THEN Ret(ErrorObj(<<"No data available">>))
    ELSE
    LET correlation_data == CorrMatrix(df)
        pairs == {p \in (1..Len(NumericCols)) \X (1..Len(NumericCols)) :
                     UpperTriangle(p[1], p[2])}
        keys == {<<NumericCols[p[1]], "_vs_", NumericCols[p[2]]>> : p \in pairs}
    IN Ret([kind |-> "correlations",
            correlations |-> [key \in keys |->
                [metric1 |-> key[1],
                 metric2 |-> key[3],
                 correlation |-> correlation_data[key[1]][key[3]],
                 interpretation |-> InterpretCorrelation(correlation_data[key[1]][key[3]])]],
            correlation_matrix |-> correlation_data,
            total_records |-> Len(df.rows)])

\* _get_correlations_impl: except Exception -> {'error': str(e)}
GetCorrelationsImpl(dc, failing) ==
    LET fetched == GetCancerData(dc, failing, {}, None, None, None)
        b == CorrelationsBody(fetched.df)
    IN ImplOut(b, Try(b, ErrorObj(b.msg)), fetched)


\* a call of an operation: the function's name and the keyword arguments it
\* is called with (an argument the function does not take is held at a fixed
\* filler)
ResultKey(fn, state, cancer_type, metric, year, limit, threshold, states) ==
    [fn |-> fn, state |-> state, cancer_type |-> cancer_type, metric |-> metric,
     year |-> year, limit |-> limit, threshold |-> threshold, states |-> states]

\* the keyword arguments the routes pass to each operation
KwNames(fn) ==
    CASE fn = "_calculate_trends_impl" -> {"state", "cancer_type", "metric"}
      [] fn = "_get_top_states_impl" -> {"metric", "cancer_type", "year", "limit"}
      [] fn = "_compare_states_impl" -> {"states", "metric", "cancer_type"}
      [] fn = "_get_outliers_impl" -> {"metric", "threshold"}
      [] OTHER -> {}

\* the cache key cache_result makes of the call
CacheKey(call) ==
    LET all == [state |-> ReprOptStr(call.state), cancer_type |-> ReprOptStr(call.cancer_type),
                metric |-> ReprStr(call.metric), year |-> ReprOptInt(call.year),
                limit |-> ReprInt(call.limit), threshold |-> ReprFloat(call.threshold),
                states |-> ReprStrList(call.states)]
    IN GenerateKey(call.fn, <<>>, [n \in KwNames(call.fn) |-> all[n]])

\* cache_result(timeout)(func)(**kwargs): the stored value if there is one,
\* else func's result, stored; an exception of func propagates
CacheResult(rc, dc, key, impl) ==
    LET cached_result == CacheGet(rc, key)
        miss == [hit |-> FALSE, failed |-> impl.failed, cause |-> impl.cause,
                 dberr |-> impl.dberr, dcache |-> impl.dcache, df |-> impl.df]
    IN IF cached_result # None
       THEN [raised |-> FALSE, msg |-> <<>>, value |-> cached_result[1], hit |-> TRUE,
             failed |-> FALSE, cause |-> <<>>, dberr |-> FALSE,
             rcache |-> rc, dcache |-> dc, df |-> EmptyFrame]
       ELSE IF impl.raised
       THEN miss @@ [raised |-> TRUE, msg |-> impl.msg, value |-> [kind |-> "none"],
                     rcache |-> rc]
       ELSE miss @@ [raised |-> FALSE, msg |-> <<>>, value |-> impl.value,
                     rcache |-> CacheSet(rc, key, impl.value)]

\* ------------------------------------------- DataService: lists and range

\* get_states_list: the distinct states in order, 'Australia' left out; [] when
\* the query raises
GetStatesList(failing) ==
    LET q == DbExecuteQuery(failing,
                 SortedStr({db[i].state : i \in 1..Len(db)}, StateOrder))
        b == IF q.exc THEN q
             ELSE Ret(ListObj(SelectSeq(q.value, LAMBDA st : st # "Australia")))
    IN Try(b, ListObj(<<>>))

\* get_cancer_types: the distinct cancer types (CancerTypes holds one, so their
\* order does not show); [] when the query raises
GetCancerTypes(failing) ==
    LET q == DbExecuteQuery(failing,
                 SelectSeq(<<"c1">>, LAMBDA c : \E i \in 1..Len(db) : db[i].cancer_type = c))
        b == IF q.exc THEN q ELSE Ret(ListObj(q.value))
    IN Try(b, ListObj(<<>>))

\* get_years_range: the one row MIN("Year"), MAX("Year"), both NULL over an
\* empty table; the fixed range when the query raises
GetYearsRange(failing) ==
    LET years == {db[i].year : i \in 1..Len(db)}
        row == IF years = {} THEN [kind |-> "years", min_year |-> None, max_year |-> None]
               ELSE [kind |-> "years",
                     min_year |-> Some(CHOOSE y \in years : \A z \in years : y <= z),
                     max_year |-> Some(CHOOSE y \in years : \A z \in years : z <= y)]
        q == DbExecuteQuery(failing, <<row>>)
        b == IF q.exc THEN q ELSE Ret(q.value[1])
    IN Try(b, [kind |-> "years", min_year |-> Some(2007), max_year |-> Some(2021)])

\* -------------------------------------------------------------- the routes

NoResponse == [route |-> "", status |-> 0, body |-> <<>>]

\* faulty variant: an error object in the data is answered with 500
Respond_ErrorObjectIs500(route, raised, msg, data) ==
    IF raised \/ data.kind = "error"
    THEN [route |-> route, status |-> 500, body |-> [success |-> FALSE, error |-> msg]]
    ELSE [route |-> route, status |-> 200, body |-> [success |-> TRUE, data |-> data]]

\* a handler of routes/api.py: try: data = service(...); return jsonify(
\* {'success': True, 'data': data, ...}) / except Exception as e: return
\* jsonify({'success': False, 'error': str(e)}), 500
Respond(route, raised, msg, data) ==
    IF raised
    THEN [route |-> route, status |-> 500, body |-> [success |-> FALSE, error |-> msg]]
    ELSE [route |-> route, status |-> 200, body |-> [success |-> TRUE, data |-> data]]

\* --------------------------------------------------------- get_connection

\* the methods of DatabaseService that use `with self.get_connection() as conn`
ConnOps == {"execute_query", "get_dataframe", "test_connection"}

\* how the body of the with-block ends: it returns, or it raises a
\* psycopg2.Error or some other exception
BlockEnds == {"returns", "psycopg2.Error", "Exception"}

\* a call of one of the methods, about to enter get_connection with conn = None
ConnCall(op) ==
    [op |-> op, pc |-> "enter", conn |-> None, opened |-> 0, closed |-> 0,
     closes |-> 0, pending |-> "", logged |-> <<>>, out |-> ""]

\* except psycopg2.Error as e: logger.error(...); raise
GetConnectionExcept(call) ==
    IF call.pending = "psycopg2.Error"
    THEN [call EXCEPT !.logged = Append(@, "Database connection error")]
    ELSE call

\* faulty variant: the connection is closed after the yield, outside any finally
GetConnectionFinally_AfterYield(call) ==
    IF call.conn # None /\ call.pending = "returns"
    THEN [call EXCEPT !.closed = @ + 1, !.closes = @ + 1,
                      !.logged = Append(@, "Database connection closed")]
    ELSE call

\* finally: if conn: conn.close()
GetConnectionFinally(call) ==
    IF call.conn # None
    THEN [call EXCEPT !.closed = @ + 1, !.closes = @ + 1,
                      !.logged = Append(@, "Database connection closed")]
    ELSE call

\* the generator of get_connection ends: the exception in flight, if any, goes
\* through the except clause and the finally clause and leaves the with statement
GetConnectionEnd(call) ==
    [GetConnectionFinally(GetConnectionExcept(call)) EXCEPT
        !.pc = "left",
        !.out = IF call.pending = "returns" THEN "" ELSE call.pending]

\* one of the methods is called
BeginCall(ops) ==
    \E op \in ops :
        /\ Len(conns) < MaxConnCalls
        /\ conns' = Append(conns, ConnCall(op))
        /\ UNCHANGED <<db, dbFailing, dataCache, resultCache, last, budget, now, reqs, app>>

\* conn = psycopg2.connect(...); yield conn -- or connect raises, and the
\* generator ends before it yields
Connect(c) ==
    /\ conns[c].pc = "enter"
    /\ conns' = [conns EXCEPT ![c] =
          IF dbFailing
          THEN GetConnectionEnd([@ EXCEPT !.pending = "psycopg2.Error"])
          ELSE [@ EXCEPT !.pc = "block", !.conn = Some(c), !.opened = @ + 1]]
    /\ UNCHANGED <<db, dbFailing, dataCache, resultCache, last, budget, now, reqs, app>>

\* the body of the with-block: the cursor, the query, the rows
RunBlock(c, ends) ==
    \E end \in ends :
        /\ conns[c].pc = "block"
        /\ conns' = [conns EXCEPT ![c] = [@ EXCEPT !.pc = "exit", !.pending = end]]
        /\ UNCHANGED <<db, dbFailing, dataCache, resultCache, last, budget, now, reqs, app>>

\* the with-block is left: the generator is resumed, or the exception is thrown
\* into it at the yield
LeaveBlock(c) ==
    /\ conns[c].pc = "exit"
    /\ conns' = [conns EXCEPT ![c] = GetConnectionEnd(@)]
    /\ UNCHANGED <<db, dbFailing, dataCache, resultCache, last, budget, now, reqs, app>>

\* ------------------------------------------------------------- create_app

\* the keys of config in config.py
ConfigNames == {"development", "production", "default"}

\* what create_app is called with (conftest.py: 'testing') and what FLASK_ENV
\* is set to, if anything
ConfigNameArgs ==
    {None, Some("development"), Some("production"), Some("default"), Some("testing")}
FlaskEnvs == {None, Some("development"), Some("production"), Some("testing")}

\* required_vars of Config.validate_config
RequiredVars == {"DB_HOST", "DB_NAME", "DB_USER", "DB_PASSWORD"}

\* the parameters of the two blueprint factories, none with a default
ApiRoutesParams == <<"data_service", "viz_service", "analytics_service">>
WebRoutesParams == <<"data_service", "viz_service">>

\* the arguments create_app passes to either factory
FactoryArgs == <<"data_service", "viz_service">>

\* a call func(*args) of a function whose parameters have no defaults: a
\* TypeError unless there is one argument per parameter
CallPositional(func, params, args, result) ==
    IF Len(args) < Len(params)
    THEN Exc(<<func, "() missing required positional arguments: ">>
             \o SubSeq(params, Len(args) + 1, Len(params)))
    ELSE IF Len(args) > Len(params)
    THEN Exc(<<func, "() takes fewer positional arguments">>)
    ELSE Ret(result)

\* no run of create_app
NoApp ==
    [pc |-> "none", config_name |-> None, flask_env |-> None, missing |-> {},
     name |-> "", error |-> "", msg |-> <<>>, logged |-> <<>>,
     connected |-> FALSE, blueprints |-> {}]

\* create_app about to run
StartApp(config_name, flask_env, missing) ==
    [NoApp EXCEPT !.pc = "config", !.config_name = config_name,
                  !.flask_env = flask_env, !.missing = missing]

\* the run ends with the exception raised to the caller; inside the try block
\* it is logged first
RaiseFrom(a, error, msg, inTry) ==
    [a EXCEPT !.pc = "raised", !.error = error, !.msg = msg,
              !.logged = IF inTry THEN Append(@, "Failed to initialize application")
                         ELSE @]

\* config_name = os.getenv('FLASK_ENV', 'default') when None;
\* app.config.from_object(config[config_name])
FindConfig ==
    LET name == IF app.config_name # None THEN app.config_name[1]
                ELSE IF app.flask_env # None THEN app.flask_env[1]
                ELSE "default"
    IN /\ app.pc = "config"
       /\ app' = IF name \in ConfigNames
                 THEN [app EXCEPT !.pc = "services", !.name = name]
                 ELSE RaiseFrom([app EXCEPT !.name = name], "KeyError",
                                KeyErrorStr(name), FALSE)
       /\ UNCHANGED <<db, dbFailing, dataCache, resultCache, last, budget, now, reqs, conns>>

\* app_config = config[config_name](); DatabaseService(app_config), whose
\* __init__ calls validate_config; DataService(...); VisualizationService()
BuildServices ==
    /\ app.pc = "services"
    /\ app' = IF app.missing # {}
              THEN RaiseFrom(app, "ValueError",
                             <<"Missing required environment variables: ">>
                             \o SortedStr(app.missing,
                                          <<"DB_HOST", "DB_NAME", "DB_USER", "DB_PASSWORD">>),
                             TRUE)
              ELSE [app EXCEPT !.pc = "connection"]
    /\ UNCHANGED <<db, dbFailing, dataCache, resultCache, last, budget, now, reqs, conns>>

\* if not db_service.test_connection(): log the failure, and go on
TestConnection ==
    /\ app.pc = "connection"
    /\ app' = [app EXCEPT !.pc = "blueprints", !.connected = ~dbFailing,
                          !.logged = IF dbFailing
                                     THEN Append(@, "Failed to connect to database on startup")
                                     ELSE @]
    /\ UNCHANGED <<db, dbFailing, dataCache, resultCache, last, budget, now, reqs, conns>>

\* api_bp = create_api_routes(data_service, viz_service); web_bp =
\* create_web_routes(data_service, viz_service); app.register_blueprint of both
RegisterBlueprints ==
    LET api_bp == CallPositional("create_api_routes", ApiRoutesParams, FactoryArgs, "api")
        web_bp == CallPositional("create_web_routes", WebRoutesParams, FactoryArgs, "web")
    IN /\ app.pc = "blueprints"
       /\ app' = IF api_bp.exc THEN RaiseFrom(app, "TypeError", api_bp.msg, TRUE)
                 ELSE IF web_bp.exc THEN RaiseFrom(app, "TypeError", web_bp.msg, TRUE)
                 ELSE [app EXCEPT !.pc = "returned",
                                  !.blueprints = {api_bp.value, web_bp.value}]
       /\ UNCHANGED <<db, dbFailing, dataCache, resultCache, last, budget, now, reqs, conns>>

\* ------------------------------------------------------------ the system

NoKey == ResultKey("none", None, None, "", None, 0, 0, <<>>)
NoCall == [op |-> "none", key |-> NoKey, hit |-> FALSE, raised |-> FALSE, msg |-> <<>>,
           value |-> [kind |-> "none"], failed |-> FALSE, cause |-> <<>>,
           dberr |-> FALSE, df |-> EmptyFrame, again |-> FALSE, before |-> [kind |-> "none"],
           ckey |-> <<>>, http |-> NoResponse]

\* one call of a public operation of AnalyticsService, start to return, made
\* by the handler of the route named or, for "", by some other caller
CallVia(route, key, impl) ==
    LET out == CacheResult(resultCache, dataCache, CacheKey(key), impl)
    IN /\ budget > 0
       /\ budget' = budget - 1
       /\ resultCache' = out.rcache
       /\ dataCache' = out.dcache
       /\ last' = [op |-> key.fn, key |-> key, hit |-> out.hit, raised |-> out.raised,
                   msg |-> out.msg, value |-> out.value, failed |-> out.failed,
                   cause |-> out.cause, dberr |-> out.dberr, df |-> out.df,
                   again |-> (last.key = key),
                   before |-> IF last.key = key THEN last.value ELSE [kind |-> "none"],
                   ckey |-> CacheKey(key),
                   http |-> IF route = "" THEN NoResponse
                            ELSE Respond(route, out.raised, out.msg, out.value)]
       /\ UNCHANGED <<db, dbFailing, now, reqs, app, conns>>

Call(key, impl) == CallVia("", key, impl)

\* analytics_service.calculate_trends(state=, cancer_type=, metric=)
CalculateTrends(S, C, M) ==
    \E state \in S, cancer_type \in C, metric \in M :
        Call(ResultKey("_calculate_trends_impl", state, cancer_type, metric, None, 0, 0, <<>>),
             CalculateTrendsImpl(dataCache, dbFailing, state, cancer_type, metric))

\* analytics_service.get_top_states(metric=, cancer_type=, year=, limit=)
GetTopStates(M, C, Y, L) ==
    \E metric \in M, cancer_type \in C, year \in Y, limit \in L :
        Call(ResultKey("_get_top_states_impl", None, cancer_type, metric, year, limit, 0, <<>>),
             GetTopStatesImpl(dataCache, dbFailing, metric, cancer_type, year, limit))

\* analytics_service.compare_states(states=, metric=, cancer_type=)
CompareStates(SS, M, C) ==
    \E states \in SS, metric \in M, cancer_type \in C :
        Call(ResultKey("_compare_states_impl", None, cancer_type, metric, None, 0, 0, states),
             CompareStatesImpl(dataCache, dbFailing, states, metric, cancer_type))

\* POST /analytics/compare-states: `if not states` answers 400 without calling
\* the service; otherwise the service's result is the response's data
ApiCompareStates(SS, M, C) ==
    \E states \in SS, metric \in M, cancer_type \in C :
        IF states = <<>>
        THEN /\ budget > 0
             /\ budget' = budget - 1
             /\ last' = [NoCall EXCEPT
                            !.op = "api_compare_states",
                            !.value = [kind |-> "http_error", status |-> 400,
                                       error |-> <<"No states provided for comparison">>]]
             /\ UNCHANGED <<db, dbFailing, dataCache, resultCache, now, reqs, app, conns>>
        ELSE Call(ResultKey("_compare_states_impl", None, cancer_type, metric, None, 0, 0, states),
                  CompareStatesImpl(dataCache, dbFailing, states, metric, cancer_type))

\* analytics_service.get_outliers(metric=, threshold=)
GetOutliers(M, T) ==
    \E metric \in M, threshold \in T :
        Call(ResultKey("_get_outliers_impl", None, None, metric, None, 0, threshold, <<>>),
             GetOutliersImpl(dataCache, dbFailing, metric, threshold))

\* analytics_service.get_correlations()
GetCorrelations ==
    Call(ResultKey("_get_correlations_impl", None, None, "", None, 0, 0, <<>>),
         GetCorrelationsImpl(dataCache, dbFailing))

\* self._interpret_correlation(corr_value) applied to the value held in last
InterpretCorrelationStep ==
    /\ budget > 0 /\ last.value.kind = "corr_value"
    /\ budget' = budget - 1
    /\ last' = [last EXCEPT !.op = "_interpret_correlation",
                            !.value = [kind |-> "interpretation", r |-> last.value.r,
                                       label |-> InterpretCorrelation(last.value.r)]]
    /\ UNCHANGED <<db, dbFailing, dataCache, resultCache, now, reqs, app, conns>>

\* the database stops answering / answers again (psycopg2.connect raises or not)
DbFail ==
    /\ budget > 0 /\ ~dbFailing
    /\ dbFailing' = TRUE
    /\ UNCHANGED <<db, dataCache, resultCache, last, budget, now, reqs, app, conns>>

DbRecover ==
    /\ budget > 0 /\ dbFailing
    /\ dbFailing' = FALSE
    /\ UNCHANGED <<db, dataCache, resultCache, last, budget, now, reqs, app, conns>>

\* analytics_service.cache_service.clear() / data_service.cache_service.clear()
ClearResultCache ==
    /\ budget > 0 /\ resultCache # <<>>
    /\ resultCache' = <<>>
    /\ UNCHANGED <<db, dbFailing, dataCache, last, budget, now, reqs, app, conns>>

ClearDataCache ==
    /\ budget > 0 /\ dataCache # <<>>
    /\ dataCache' = <<>>
    /\ UNCHANGED <<db, dbFailing, resultCache, last, budget, now, reqs, app, conns>>

\* data_service.get_cancer_data called with the keyword arguments named in kw
\* (an argument not passed takes its default None); before: what the call
\* before it returned
GetCancerDataOp(KW, S, Y, C) ==
    \E kw \in KW, state \in S, year \in Y, cancer_type \in C :
        LET key == DataKey(kw, state, year, cancer_type)
            out == GetCancerData(dataCache, dbFailing, kw, state, year, cancer_type)
        IN /\ budget > 0
           /\ ("state" \notin kw => state = None)
           /\ ("year" \notin kw => year = None)
           /\ ("cancer_type" \notin kw => cancer_type = None)
           /\ budget' = budget - 1
           /\ dataCache' = out.cache
           /\ last' = [NoCall EXCEPT
                          !.op = "get_cancer_data",
                          !.key = ResultKey("get_cancer_data", state, cancer_type, "",
                                            year, 0, 0, <<>>),
                          !.ckey = key,
                          !.hit = (key \in DOMAIN dataCache),
                          !.dberr = out.dberr,
                          !.df = out.df,
                          !.before = last.value]
           /\ UNCHANGED <<db, dbFailing, resultCache, now, reqs, app, conns>>

\* a handler that asks the DataService for a list or a range
ApiList(route, r) ==
    /\ budget > 0
    /\ budget' = budget - 1
    /\ last' = [NoCall EXCEPT !.op = route, !.raised = r.exc, !.msg = r.msg,
                              !.dberr = dbFailing,
                              !.http = Respond(route, r.exc, r.msg, r.value)]
    /\ UNCHANGED <<db, dbFailing, dataCache, resultCache, now, reqs, app, conns>>

\* GET /api/states, /api/cancer-types, /api/years
ApiStates == ApiList("/api/states", GetStatesList(dbFailing))
ApiCancerTypes == ApiList("/api/cancer-types", GetCancerTypes(dbFailing))
ApiYears == ApiList("/api/years", GetYearsRange(dbFailing))

\* GET /api/data?state=&year=&cancer_type=: the rows as records ('data': []
\* with a message when the DataFrame is empty)
ApiData(S, Y, C) ==
    \E state \in S, year \in Y, cancer_type \in C :
        LET kw == {"state", "year", "cancer_type"}
            out == GetCancerData(dataCache, dbFailing, kw, state, year, cancer_type)
            data == [kind |-> "records", items |-> out.df.rows, count |-> Len(out.df.rows)]
        IN /\ budget > 0
           /\ budget' = budget - 1
           /\ dataCache' = out.cache
           /\ last' = [NoCall EXCEPT
                          !.op = "/api/data",
                          !.ckey = out.key,
                          !.hit = (out.key \in DOMAIN dataCache),
                          !.dberr = out.dberr,
                          !.df = out.df,
                          !.http = Respond("/api/data", FALSE, <<>>, data)]
           /\ UNCHANGED <<db, dbFailing, resultCache, now, reqs, app, conns>>

\* GET /api/analytics/trends, top-states, outliers, correlations
ApiTrends(S, C, M) ==
    \E state \in S, cancer_type \in C, metric \in M :
        CallVia("/api/analytics/trends",
                ResultKey("_calculate_trends_impl", state, cancer_type, metric, None, 0, 0, <<>>),
                CalculateTrendsImpl(dataCache, dbFailing, state, cancer_type, metric))

ApiTopStates(M, C, Y, L) ==
    \E metric \in M, cancer_type \in C, year \in Y, limit \in L :
        CallVia("/api/analytics/top-states",
                ResultKey("_get_top_states_impl", None, cancer_type, metric, year, limit, 0, <<>>),
                GetTopStatesImpl(dataCache, dbFailing, metric, cancer_type, year, limit))

ApiOutliers(M, T) ==
    \E metric \in M, threshold \in T :
        CallVia("/api/analytics/outliers",
                ResultKey("_get_outliers_impl", None, None, metric, None, 0, threshold, <<>>),
                GetOutliersImpl(dataCache, dbFailing, metric, threshold))

ApiCorrelations ==
    CallVia("/api/analytics/correlations",
            ResultKey("_get_correlations_impl", None, None, "", None, 0, 0, <<>>),
            GetCorrelationsImpl(dataCache, dbFailing))

\* ------------------------------------------------- requests side by side

\* the get_cancer_data call an operation makes
FetchOf(call) ==
    CASE call.fn = "_calculate_trends_impl" ->
            [kw |-> {"state", "cancer_type"}, state |-> call.state, year |-> None,
             cancer_type |-> call.cancer_type]
      [] call.fn = "_get_top_states_impl" ->
            [kw |-> {"cancer_type", "year"}, state |-> None, year |-> call.year,
             cancer_type |-> call.cancer_type]
      [] OTHER -> [kw |-> {}, state |-> None, year |-> None, cancer_type |-> None]

FetchKey(call) ==
    LET f == FetchOf(call) IN DataKey(f.kw, f.state, f.year, f.cancer_type)

\* what the operation returns once it holds the DataFrame: its try block, an
\* exception turned into the value of its except clause
ResultOf(call, df) ==
    (CASE call.fn = "_calculate_trends_impl" ->
            LET b == TrendsBody(df, call.metric) IN Try(b, ErrorObj(b.msg))
       [] call.fn = "_get_top_states_impl" ->
            LET b == TopStatesBody(df, call.metric, call.year, call.limit)
            IN Try(b, ListObj(<<>>))
       [] call.fn = "_get_outliers_impl" ->
            LET b == OutliersBody(df, call.metric, call.threshold) IN Try(b, ErrorObj(b.msg))
       [] OTHER ->
            LET b == CorrelationsBody(df) IN Try(b, ErrorObj(b.msg))).value

\* a request about to make the call
Request(call) ==
    [call |-> call, pc |-> "lookup", hit |-> FALSE, dhit |-> FALSE,
     df |-> EmptyFrame, value |-> [kind |-> "none"]]

\* cache_result wrapper: cached_result = self.get(cache_key), returned when
\* there is one
ResultLookup(r) ==
    LET cached_result == CacheGet(resultCache, CacheKey(reqs[r].call))
    IN /\ reqs[r].pc = "lookup"
       /\ reqs' = [reqs EXCEPT ![r] =
             IF cached_result # None
             THEN [@ EXCEPT !.pc = "done", !.hit = TRUE, !.value = cached_result[1]]
             ELSE [@ EXCEPT !.pc = "fetch"]]
       /\ UNCHANGED <<db, dbFailing, dataCache, resultCache, last, budget, now, app, conns>>

\* cache_dataframe wrapper: cached_result = self.get(cache_key), read back
\* with read_json when there is one
DataLookup(r) ==
    LET cached_result == CacheGet(dataCache, FetchKey(reqs[r].call))
    IN /\ reqs[r].pc = "fetch"
       /\ reqs' = [reqs EXCEPT ![r] =
             IF cached_result # None
             THEN [@ EXCEPT !.pc = "body", !.dhit = TRUE, !.df = FromCache(cached_result[1])]
             ELSE [@ EXCEPT !.pc = "query"]]
       /\ UNCHANGED <<db, dbFailing, dataCache, resultCache, last, budget, now, app, conns>>

\* cache_dataframe wrapper: result = func(*args, **kwargs), the query
DataQuery(r) ==
    LET f == FetchOf(reqs[r].call)
    IN /\ reqs[r].pc = "query"
       /\ reqs' = [reqs EXCEPT ![r] =
             [@ EXCEPT !.pc = "store",
                       !.df = GetCancerDataImpl(dbFailing, f.state, f.year, f.cancer_type)]]
       /\ UNCHANGED <<db, dbFailing, dataCache, resultCache, last, budget, now, app, conns>>

\* cache_dataframe wrapper: self.set(cache_key, result.to_json(...)); return result
DataStore(r) ==
    /\ reqs[r].pc = "store"
    /\ dataCache' = CacheSet(dataCache, FetchKey(reqs[r].call), ToJson(reqs[r].df))
    /\ reqs' = [reqs EXCEPT ![r] = [@ EXCEPT !.pc = "body"]]
    /\ UNCHANGED <<db, dbFailing, resultCache, last, budget, now, app, conns>>

\* the operation's own work on the DataFrame it was given
ResultCompute(r) ==
    /\ reqs[r].pc = "body"
    /\ reqs' = [reqs EXCEPT ![r] =
          [@ EXCEPT !.pc = "set", !.value = ResultOf(reqs[r].call, reqs[r].df)]]
    /\ UNCHANGED <<db, dbFailing, dataCache, resultCache, last, budget, now, app, conns>>

\* cache_result wrapper: self.set(cache_key, result, cache_timeout); return result
ResultStore(r) ==
    /\ reqs[r].pc = "set"
    /\ resultCache' = CacheSet(resultCache, CacheKey(reqs[r].call), reqs[r].value)
    /\ reqs' = [reqs EXCEPT ![r] = [@ EXCEPT !.pc = "done"]]
    /\ UNCHANGED <<db, dbFailing, dataCache, last, budget, now, app, conns>>

\* cache_service.set(key, value, timeout) by a caller; the value stored notes
\* the timeout it was given and the time of the call
CacheSetOp(K, V, T) ==
    \E key \in K, v \in V, timeout \in T :
        LET value == [kind |-> "raw", v |-> v, timeout |-> timeout, at |-> now]
        IN /\ budget > 0
           /\ budget' = budget - 1
           /\ resultCache' = CacheSet(resultCache, key, value)
           /\ last' = [NoCall EXCEPT !.op = "cache_set", !.ckey = key, !.value = value]
           /\ UNCHANGED <<db, dbFailing, dataCache, now, reqs, app, conns>>

\* cache_service.get(key): the stored value or None
CacheGetOp(K) ==
    \E key \in K :
        LET got == CacheGet(resultCache, key)
        IN /\ budget > 0
           /\ budget' = budget - 1
           /\ last' = [NoCall EXCEPT
                          !.op = "cache_get", !.ckey = key, !.hit = (got # None),
                          !.value = IF got # None THEN got[1] ELSE [kind |-> "none"]]
           /\ UNCHANGED <<db, dbFailing, dataCache, resultCache, now, reqs, app, conns>>

\* cache_service.delete(key)
CacheDeleteOp(K) ==
    \E key \in K :
        /\ budget > 0
        /\ budget' = budget - 1
        /\ resultCache' = CacheDelete(resultCache, key)
        /\ last' = [NoCall EXCEPT !.op = "cache_delete", !.ckey = key]
        /\ UNCHANGED <<db, dbFailing, dataCache, now, reqs, app, conns>>

\* cache_service.clear()
CacheClearOp ==
    /\ budget > 0
    /\ budget' = budget - 1
    /\ resultCache' = CacheClear(resultCache)
    /\ last' = [NoCall EXCEPT !.op = "cache_clear"]
    /\ UNCHANGED <<db, dbFailing, dataCache, now, reqs, app, conns>>

\* time passes: longer than any timeout a set is given
Tick ==
    /\ now < MaxTicks * ResultTimeout
    /\ now' = now + ResultTimeout
    /\ UNCHANGED <<db, dbFailing, dataCache, resultCache, last, budget, reqs, app, conns>>

\* a row of the table; the columns no call of the model asks for are fixed
RowsOf(states, years, values) ==
    [cancer_type : CancerTypes, year : years, sex : {"Persons"}, state : states,
     mortality_count : {50}, mortality_rate : values,
     incidence_rate : {300}, incidence_count : {70}]

StateRank(s) == CHOOSE i \in 1..Len(StateOrder) : StateOrder[i] = s

\* ORDER BY "Year", "State or Territory"
InQueryOrder(t) ==
    \A i \in 1..(Len(t) - 1) :
        \/ t[i].year < t[i + 1].year
        \/ t[i].year = t[i + 1].year /\ StateRank(t[i].state) <= StateRank(t[i + 1].state)

TablesOf(states, years, values, maxRows) ==
    UNION {{t \in [1..n -> RowsOf(states, years, values)] : InQueryOrder(t)} : n \in 0..maxRows}

InitWith(tables, calls) ==
    /\ db \in tables
    /\ dbFailing = FALSE
    /\ dataCache = <<>>
    /\ resultCache = <<>>
    /\ last = NoCall
    /\ budget = calls
    /\ now = 0
    /\ reqs = <<>>
    /\ app = NoApp
    /\ conns = <<>>

\* the service layer over a small table, several calls, the database failing
\* and recovering between them
Init == InitWith(TablesOf(SmallStates, Years, SmallValues, SmallRows), MaxCalls)

Next ==
    \/ CalculateTrends({None, Some("B")}, {None}, MetricArgs)
    \/ GetTopStates(MetricArgs, {None}, {None}, {1})
    \/ CompareStates({<<"A", "B">>}, MetricArgs, {None})
    \/ GetOutliers(MetricArgs, {0})
    \/ GetCorrelations
    \/ DbFail
    \/ DbRecover

Spec == Init /\ [][Next]_vars

\* one call of calculate_trends over every table of up to MaxRows rows
InitTrends == InitWith(TablesOf(States, TrendYears, Values, MaxRows), 1)
NextTrends == CalculateTrends(StateArgs, CancerTypeArgs, MetricArgs)
SpecTrends == InitTrends /\ [][NextTrends]_vars

\* one call of get_top_states over every table of up to MaxRows rows
InitTop == InitWith(TablesOf(States, Years, TopValues, MaxRows), 1)
NextTop == GetTopStates(MetricArgs, {None}, YearArgs, LimitArgs)
SpecTop == InitTop /\ [][NextTop]_vars

\* calls of get_top_states, the caches cleared or not between them
InitTopTwice == InitWith(TablesOf(States, Years, SmallValues, MaxRows), MaxCalls)
NextTopTwice ==
    \/ GetTopStates({"mortality_rate"}, {None}, YearArgs, {1, 2})
    \/ ClearResultCache
    \/ ClearDataCache
SpecTopTwice == InitTopTwice /\ [][NextTopTwice]_vars

\* one call of compare_states, by the service or by the route, over every
\* table of up to MaxRows rows
InitCompare == InitWith(TablesOf(States, Years, TopValues, MaxRows), 1)
NextCompare ==
    \/ CompareStates(StatesArgs, MetricArgs, CancerTypeArgs)
    \/ ApiCompareStates(StatesArgs, MetricArgs, CancerTypeArgs)
SpecCompare == InitCompare /\ [][NextCompare]_vars

\* a table of n rows, one per year, whose metric values follow a cycle
LongRow(i, v) ==
    [cancer_type |-> "c1", year |-> 2000 + i, sex |-> "Persons", state |-> "A",
     mortality_count |-> 50, mortality_rate |-> v,
     incidence_rate |-> 300, incidence_count |-> 70]

LongTables ==
    {[i \in 1..n |-> LongRow(i, ((i * a) % m) * 10)] :
        n \in (MaxRows + 1)..LongRows, a \in {0, 1, 3}, m \in {2, 3, 5}}

\* one call of get_outliers over every table of up to MaxRows rows and over
\* the long tables
InitOutliers == InitWith(TablesOf(States, Years, TopValues, MaxRows) \cup LongTables, 1)
NextOutliers == GetOutliers(MetricArgs, OutlierThresholdArgs)
SpecOutliers == InitOutliers /\ [][NextOutliers]_vars

\* rows of one state and year whose four metric columns vary, the deaths no
\* more than the cases
CorrRow ==
    {r \in [cancer_type : CancerTypes, year : {2018}, sex : {"Persons"}, state : SmallStates,
            mortality_count : CorrValues, mortality_rate : CorrValues,
            incidence_rate : CorrValues, incidence_count : CorrValues] :
        r.mortality_count <= r.incidence_count /\ r.mortality_rate <= r.incidence_rate}

CorrTables == UNION {[1..n -> CorrRow] : n \in 0..CorrRows}

\* one call of get_correlations over every such table of up to CorrRows rows
InitCorr == InitWith(CorrTables, 1)
NextCorr == GetCorrelations
SpecCorr == InitCorr /\ [][NextCorr]_vars

\* the correlation value k / InterpretSteps as a float
CorrValue(k) ==
    [k |-> "sqrt", sgn |-> Sgn(k), sq |-> Q(k * k, InterpretSteps * InterpretSteps)]

\* _interpret_correlation applied once to a correlation value of [-1, 1]
InitInterpret ==
    /\ db = <<>>
    /\ dbFailing = FALSE
    /\ dataCache = <<>>
    /\ resultCache = <<>>
    /\ \E k \in (-InterpretSteps)..InterpretSteps :
          last = [NoCall EXCEPT !.value = [kind |-> "corr_value", r |-> CorrValue(k)]]
    /\ budget = 1
    /\ now = 0
    /\ reqs = <<>>
    /\ app = NoApp
    /\ conns = <<>>
NextInterpret == InterpretCorrelationStep
SpecInterpret == InitInterpret /\ [][NextInterpret]_vars

\* a CacheService used directly: set, get, delete and clear while time passes
InitCache == InitWith({<<>>}, MaxCacheOps)
NextCache ==
    \/ CacheSetOp(RawKeys, RawValues, TimeoutArgs)
    \/ CacheGetOp(RawKeys)
    \/ CacheDeleteOp(RawKeys)
    \/ CacheClearOp
    \/ Tick
SpecCache == InitCache /\ [][NextCache]_vars

\* the operations called one after another over a database that answers and
\* holds one state's figures, a row a year
YearlyTables ==
    {t \in TablesOf(SmallStates, Years, SmallValues, SmallRows) :
        \A i \in 1..Len(t), j \in 1..Len(t) : i # j => t[i].year # t[j].year}

InitKeys == InitWith(YearlyTables, MaxKeyCalls)
NextKeys ==
    \/ CalculateTrends({None, Some("B")}, {None}, MetricArgs)
    \/ GetTopStates(MetricArgs, {None}, {None}, {1})
    \/ CompareStates({<<"A", "B">>}, MetricArgs, {None})
    \/ GetOutliers(MetricArgs, {0})
    \/ GetCorrelations
SpecKeys == InitKeys /\ [][NextKeys]_vars

\* two requests making the same call and a third making another, their steps
\* interleaved in every way
RaceCalls ==
    {ResultKey("_calculate_trends_impl", None, None, metric, None, 0, 0, <<>>) :
        metric \in MetricArgs}
    \cup {ResultKey("_get_top_states_impl", None, None, "mortality_rate", None, 1, 0, <<>>),
          ResultKey("_get_outliers_impl", None, None, "mortality_rate", None, 0, 0, <<>>),
          ResultKey("_get_correlations_impl", None, None, "", None, 0, 0, <<>>)}

OtherCalls ==
    {ResultKey("_calculate_trends_impl", None, None, "mortality_rate", None, 0, 0, <<>>),
     ResultKey("_get_correlations_impl", None, None, "", None, 0, 0, <<>>)}

InitRace ==
    /\ db \in YearlyTables
    /\ dbFailing = FALSE
    /\ dataCache = <<>>
    /\ resultCache = <<>>
    /\ last = NoCall
    /\ budget = 0
    /\ now = 0
    /\ \E same \in RaceCalls : \E other \in OtherCalls \ {same} :
          reqs = <<Request(same), Request(same), Request(other)>>
    /\ app = NoApp
    /\ conns = <<>>

NextRace ==
    \/ \E r \in DOMAIN reqs : ResultLookup(r)
    \/ \E r \in DOMAIN reqs : DataLookup(r)
    \/ \E r \in DOMAIN reqs : DataQuery(r)
    \/ \E r \in DOMAIN reqs : DataStore(r)
    \/ \E r \in DOMAIN reqs : ResultCompute(r)
    \/ \E r \in DOMAIN reqs : ResultStore(r)

SpecRace == InitRace /\ [][NextRace]_vars

\* one call of get_cancer_data as GET /api/data makes it, or of get_top_states
\* for a year, over every table of up to MaxRows rows
InitData == InitWith(TablesOf(States, Years, SmallValues, MaxRows), 1)
NextData ==
    \/ GetCancerDataOp({{"state", "year", "cancer_type"}},
                       FilterStateArgs, FilterYearArgs, FilterCancerTypeArgs)
    \/ GetTopStates({"mortality_rate"}, {None}, FilterYearArgs, {2})
SpecData == InitData /\ [][NextData]_vars

\* get_outliers and get_cancer_data() called one after another
InitFrame == InitWith(YearlyTables, MaxCalls)
NextFrame ==
    \/ GetOutliers(MetricArgs, ThresholdArgs)
    \/ GetCancerDataOp({{}}, {None}, {None}, {None})
SpecFrame == InitFrame /\ [][NextFrame]_vars

\* the eight GET handlers called one after another, the database failing and
\* recovering between them
InitApi == InitWith(YearlyTables, MaxCalls)
NextApi ==
    \/ ApiStates
    \/ ApiCancerTypes
    \/ ApiYears
    \/ ApiData({None, Some("A")}, {None}, {None})
    \/ ApiTrends({None}, {None}, MetricArgs)
    \/ ApiTopStates({"mortality_rate"}, {None}, {None}, {1})
    \/ ApiOutliers({"mortality_rate"}, {0})
    \/ ApiCorrelations
    \/ DbFail
    \/ DbRecover
SpecApi == InitApi /\ [][NextApi]_vars

\* one run of create_app, for every name it may be given, every FLASK_ENV,
\* every set of missing DB_* variables, the database reachable or not
InitStart ==
    /\ db = <<>>
    /\ dbFailing \in BOOLEAN
    /\ dataCache = <<>>
    /\ resultCache = <<>>
    /\ last = NoCall
    /\ budget = 0
    /\ now = 0
    /\ reqs = <<>>
    /\ \E config_name \in ConfigNameArgs, flask_env \in FlaskEnvs,
          missing \in SUBSET RequiredVars :
          app = StartApp(config_name, flask_env, missing)
    /\ conns = <<>>
NextStart ==
    \/ FindConfig
    \/ BuildServices
    \/ TestConnection
    \/ RegisterBlueprints
SpecStart == InitStart /\ [][NextStart]_vars

\* calls of the DatabaseService methods side by side, the database failing and
\* recovering between their steps
InitConn == InitWith({<<>>}, 1)
NextConn ==
    \/ BeginCall(ConnOps)
    \/ \E c \in DOMAIN conns : Connect(c)
    \/ \E c \in DOMAIN conns : RunBlock(c, BlockEnds)
    \/ \E c \in DOMAIN conns : LeaveBlock(c)
    \/ DbFail
    \/ DbRecover
SpecConn == InitConn /\ [][NextConn]_vars

\* ------------------------------------------------------------- properties

AggOps == {"_calculate_trends_impl", "_get_top_states_impl", "_compare_states_impl",
           "_get_outliers_impl", "_get_correlations_impl"}

\* the implementation of the last call ran (the call was no cache hit)
Computed(op) == last.op = op /\ ~last.hit

IsError(v, msg) == v.kind = "error" /\ v.error = msg

\* the distinct years of the rows, and the mean of the metric over the rows of
\* one year, taken straight from the rows
RefYears(rows) == {rows[i].year : i \in 1..Len(rows)}
RefSum(rows, metric, I) == SumFn([i \in I |-> Tenths(rows[i][metric])], I)
RefYearMean(rows, metric, y) ==
    LET I == {i \in 1..Len(rows) : rows[i].year = y}
    IN QDiv(RefSum(rows, metric, I), QInt(Cardinality(I)))
RefMin(S) == CHOOSE x \in S : \A y \in S : x <= y
RefMax(S) == CHOOSE x \in S : \A y \in S : y <= x

\* C1: every call of one of the five aggregation operations returns a value to
\* its caller; none lets an exception out, whether the data source gave rows,
\* gave none or raised, and whether the call was a cache miss or a cache hit.
C1_NoExceptionCrossesBoundary == last.op \in AggOps => ~last.raised

\* an exception was raised inside the operation and the call still returned
C1_Witness == last.op \in AggOps /\ last.failed /\ ~last.raised /\ last.value.kind = "error"

\* C2: for every aggregation operation, top-N ranking included, an unexpected
\* internal failure makes the operation return the error object {error: cause}.
C2_InternalFailureGivesErrorObject ==
    (last.op \in AggOps /\ last.failed) => (~last.raised /\ IsError(last.value, last.cause))

\* C3 as stated: over an empty Table, trends, outliers and correlations each
\* return an error object.
C3_EmptyTableGivesErrorObject ==
    \A op \in {"_calculate_trends_impl", "_get_outliers_impl", "_get_correlations_impl"} :
        (Computed(op) /\ IsEmpty(last.df)) => last.value.kind = "error"

\* C3 amended: over an empty Table, trends and correlations return the error
\* object 'No data available'; outlier detection returns the payload
\* {outliers: [], total_records: 0}, which has no error field.
C3_EmptyTableResults ==
    /\ \A op \in {"_calculate_trends_impl", "_get_correlations_impl"} :
          (Computed(op) /\ IsEmpty(last.df)) => IsError(last.value, <<"No data available">>)
    /\ (Computed("_get_outliers_impl") /\ IsEmpty(last.df)) =>
          /\ last.value.kind = "outliers_empty"
          /\ last.value.outliers = <<>>
          /\ last.value.total_records = 0

\* outlier detection ran over an empty Table that the database returned
C3_Witness ==
    /\ Computed("_get_outliers_impl") /\ IsEmpty(last.df) /\ ~last.dberr
    /\ last.value = NoOutliers

\* C4: when the database query fails, the aggregation operation that needed
\* the data returns an error object describing the data-access error.
C4_DataAccessErrorIsReported ==
    (last.op \in AggOps /\ last.dberr) => IsError(last.value, DbErrorStr)

\* C5: calculate_trends over a non-empty Table returns the insufficient-data
\* error, and no TrendResult, exactly when the rows cover fewer than 2 distinct
\* years (the metric being a column of the Table); with 2 or more distinct
\* years it never returns that error, whatever the metric.
C5_InsufficientDataIffFewerThanTwoYears ==
    (Computed("_calculate_trends_impl") /\ ~IsEmpty(last.df)) =>
        LET years == RefYears(last.df.rows)
            insufficient == IsError(last.value, <<"Insufficient data for trend analysis">>)
        IN /\ last.key.metric \in Metrics =>
                /\ Cardinality(years) < 2 => insufficient
                /\ Cardinality(years) >= 2 => last.value.kind = "trend"
           /\ Cardinality(years) >= 2 => ~insufficient

\* several rows of one year give the insufficient-data error
C5_Witness ==
    /\ Computed("_calculate_trends_impl") /\ Len(last.df.rows) >= 2
    /\ Cardinality(RefYears(last.df.rows)) = 1
    /\ IsError(last.value, <<"Insufficient data for trend analysis">>)

\* s solves the normal equation of the least-squares line through the points
\* (y, mean[y]): sum over y of (y - ybar) * (mean[y] - mbar - s * (y - ybar)) = 0
RefIsLeastSquaresSlope(s, years, mean) ==
    LET n == Cardinality(years)
        Sx == SumFn([y \in years |-> QInt(y)], years).n
        Sm == SumFn(mean, years)
        term(y) == QMul(QInt(n * y - Sx),
                        QSub(QSub(QMul(QInt(n), mean[y]), Sm), QMul(s, QInt(n * y - Sx))))
    IN SumFn([y \in years |-> term(y)], years).n = 0

\* calculate_trends ran over rows of at least 2 distinct years with a metric
\* that is a column
TrendComputed ==
    /\ Computed("_calculate_trends_impl") /\ ~IsEmpty(last.df)
    /\ last.key.metric \in Metrics
    /\ Cardinality(RefYears(last.df.rows)) >= 2

\* C6: over a Table of at least 2 distinct years, the slope is the least-squares
\* slope of the per-year mean of the metric against the year, and the direction
\* is 'increasing' exactly when slope > 0.1, 'decreasing' exactly when
\* slope < -0.1 and 'stable' exactly when -0.1 <= slope <= 0.1.
C6_SlopeAndDirection ==
    TrendComputed =>
        LET rows == last.df.rows
            years == RefYears(rows)
            mean == [y \in years |-> RefYearMean(rows, last.key.metric, y)]
            s == last.value.slope
            dir == last.value.trend_direction
        IN /\ last.value.kind = "trend"
           /\ RefIsLeastSquaresSlope(s, years, mean)
           /\ dir = "increasing" <=> 10 * s.n > s.d
           /\ dir = "decreasing" <=> 10 * s.n < -s.d
           /\ dir = "stable" <=> (-s.d <= 10 * s.n /\ 10 * s.n <= s.d)

\* a slope of exactly 0.1 over three years is classified stable
C6_Witness ==
    /\ TrendComputed /\ last.value.kind = "trend"
    /\ last.value.years_analyzed = 3
    /\ last.value.slope = Q(1, 10)
    /\ last.value.trend_direction = "stable"

\* the per-year mean of the earliest year is 0
ZeroBaseline ==
    /\ TrendComputed
    /\ RefYearMean(last.df.rows, last.key.metric, RefMin(RefYears(last.df.rows))).n = 0

\* C7 as stated: with a zero mean in the earliest year calculate_trends returns
\* an error object and no TrendResult.
C7_ZeroBaselineGivesError == ZeroBaseline => last.value.kind = "error"

\* C7 amended: with a zero mean in the earliest year calculate_trends raises
\* nothing and returns a TrendResult whose percent_change is not finite: inf
\* or -inf by the sign of the latest year's mean, nan when that mean is 0 too.
C7_ZeroBaselineGivesNonFinite ==
    ZeroBaseline =>
        LET rows == last.df.rows
            vN == RefYearMean(rows, last.key.metric, RefMax(RefYears(rows)))
            pc == last.value.percent_change
        IN /\ ~last.failed /\ last.value.kind = "trend"
           /\ last.value.first_value = QInt(0)
           /\ vN.n > 0 => pc = PosInf
           /\ vN.n < 0 => pc = NegInf
           /\ vN.n = 0 => pc = NaN

C7_Witness ==
    ZeroBaseline /\ last.value.kind = "trend" /\ last.value.percent_change = PosInf

ScenarioRow(year, value) ==
    [cancer_type |-> "c1", year |-> year, sex |-> "Persons", state |-> "A",
     mortality_count |-> 50, mortality_rate |-> value,
     incidence_rate |-> 300, incidence_count |-> 70]

\* the rows (A, 2018, 10.0) and (A, 2019, 20.0)
Scenario ==
    /\ Computed("_calculate_trends_impl")
    /\ last.key.metric = "mortality_rate"
    /\ last.df.rows = <<ScenarioRow(2018, 100), ScenarioRow(2019, 200)>>

\* C8: over a Table of exactly two distinct years y1 < y2 with means v1 # 0 and
\* v2, calculate_trends returns first_year = y1, last_year = y2,
\* first_value = v1, last_value = v2, slope = (v2 - v1) / (y2 - y1) and
\* percent_change = (v2 - v1) / v1 * 100; the rows (A, 2018, 10), (A, 2019, 20)
\* give 'increasing', slope > 0 and percent_change = 100.
C8_TwoYearTrend ==
    /\ TrendComputed =>
        LET rows == last.df.rows
            y1 == RefMin(RefYears(rows))
            y2 == RefMax(RefYears(rows))
            v1 == RefYearMean(rows, last.key.metric, y1)
            v2 == RefYearMean(rows, last.key.metric, y2)
            r == last.value
        IN (Cardinality(RefYears(rows)) = 2 /\ v1.n # 0) =>
              /\ r.kind = "trend"
              /\ r.first_year = y1 /\ r.last_year = y2
              /\ r.first_value = v1 /\ r.last_value = v2
              /\ r.slope = QDiv(QSub(v2, v1), QInt(y2 - y1))
              /\ r.percent_change = Fin(QMul(QDiv(QSub(v2, v1), v1), QInt(100)))
    /\ Scenario =>
          /\ last.value.kind = "trend"
          /\ last.value.trend_direction = "increasing"
          /\ last.value.slope.n > 0
          /\ last.value.percent_change = Fin(QInt(100))

C8_Witness == Scenario /\ last.value.kind = "trend" /\ last.value.slope = QInt(10)

\* the mean of the metric over the rows of one state in one year
RefStateMean(rows, metric, y, st) ==
    LET I == {i \in 1..Len(rows) : rows[i].year = y /\ rows[i].state = st}
    IN QDiv(RefSum(rows, metric, I), QInt(Cardinality(I)))

\* get_top_states ran without a year over a non-empty Table, with a metric that
\* is a column and a limit that is no negative number
TopComputedNoYear ==
    /\ Computed("_get_top_states_impl") /\ ~IsEmpty(last.df)
    /\ last.key.year = None
    /\ last.key.metric \in Metrics
    /\ last.key.limit >= 0

\* C9: get_top_states without a year uses only the rows of the latest year of
\* the Table: one entry per state with a row in that year, valued at the mean of
\* the metric over that state's rows of that year, in non-increasing order of
\* value, cut to the first `limit` entries.
C9_TopStatesOfLatestYear ==
    TopComputedNoYear =>
        LET rows == last.df.rows
            y == RefMax(RefYears(rows))
            S == {rows[i].state : i \in {j \in 1..Len(rows) : rows[j].year = y}}
            items == last.value.items
            n == Len(items)
            shown == {items[i].state : i \in 1..n}
        IN /\ last.value.kind = "list"
           /\ n = IF last.key.limit < Cardinality(S) THEN last.key.limit ELSE Cardinality(S)
           /\ \A i \in 1..n :
                 /\ items[i].state \in S
                 /\ items[i].value = RefStateMean(rows, last.key.metric, y, items[i].state)
           /\ \A i, j \in 1..n : i < j =>
                 /\ items[i].state # items[j].state
                 /\ QLe(items[j].value, items[i].value)
           /\ \A st \in S \ shown : \A i \in 1..n :
                 QLe(RefStateMean(rows, last.key.metric, y, st), items[i].value)

\* two states have rows in the latest year, an older year has rows too, and
\* the limit keeps one entry
C9_Witness ==
    /\ TopComputedNoYear /\ last.key.limit = 1
    /\ Cardinality(RefYears(last.df.rows)) = 2
    /\ \E i, j \in 1..Len(last.df.rows) :
          /\ last.df.rows[i].year = last.df.rows[j].year
          /\ last.df.rows[i].state # last.df.rows[j].state
          /\ last.df.rows[i].year = RefMax(RefYears(last.df.rows))
          /\ last.df.rows[i].mortality_rate # last.df.rows[j].mortality_rate
    /\ Len(last.value.items) = 1

\* C10: get_top_states over an empty Table returns the empty sequence and no
\* error object.
C10_EmptyTableGivesEmptyList ==
    (Computed("_get_top_states_impl") /\ IsEmpty(last.df)) =>
        (~last.raised /\ last.value.kind = "list" /\ last.value.items = <<>>)

\* the table has rows but none of the year asked for
C10_Witness ==
    /\ Computed("_get_top_states_impl") /\ IsEmpty(last.df) /\ db # <<>>
    /\ last.value = ListObj(<<>>)

IsComparison == last.op = "_compare_states_impl" /\ ~last.raised /\ last.value.kind = "comparison"

\* C12: a comparison requested with an empty list of states gives an error
\* result, never a comparison payload
C12_EmptyStatesGivesError ==
    (last.op = "_compare_states_impl" /\ last.key.states = <<>>) =>
        (~last.raised /\ last.value.kind = "error")

\* the rows of the table a comparison fetches for a state
RefStateRows(state, cancer_type) ==
    SelectSeq(db, LAMBDA r : r.state = state /\ (cancer_type # None => r.cancer_type = cancer_type[1]))

\* C13: in a comparison, a requested state without rows has no entry in
\* comparison_data, every requested state with rows has exactly one, and
\* states_count is the number of entries
C13_AbsentStatesOmitted ==
    IsComparison =>
        LET d == last.value.comparison_data
            req == Range(last.key.states)
        IN /\ \A i \in 1..Len(d) : d[i].state \in req
           /\ \A st \in req :
                 Cardinality({i \in 1..Len(d) : d[i].state = st}) =
                     IF RefStateRows(st, last.key.cancer_type) = <<>> THEN 0 ELSE 1
           /\ last.value.summary.states_count = Len(d)

\* a state with rows and a state without are requested; the count is 1, not 2
C13_Witness ==
    /\ IsComparison /\ ~last.hit
    /\ last.key.states = <<"A", "Z">>
    /\ Len(last.value.comparison_data) = 1
    /\ last.value.summary.states_count = 1

\* C14: in a comparison of N states the ranks are the numbers 1..N, each used
\* once, and a state with a larger mean never has a larger rank than a state
\* with a smaller mean
C14_RankIsPermutationByMean ==
    IsComparison =>
        LET d == last.value.comparison_data
        IN /\ {d[i].rank_by_mean : i \in 1..Len(d)} = 1..Len(d)
           /\ \A i, j \in 1..Len(d) :
                 QLt(d[j].mean, d[i].mean) => d[i].rank_by_mean < d[j].rank_by_mean

\* two states with equal means are ranked 1 and 2
C14_Witness ==
    /\ IsComparison /\ ~last.hit
    /\ Len(last.value.comparison_data) = 2
    /\ last.value.comparison_data[1].mean = last.value.comparison_data[2].mean
    /\ last.value.comparison_data[1].rank_by_mean = 1
    /\ last.value.comparison_data[2].rank_by_mean = 2

\* get_outliers computed a result over a non-empty table that has the metric
OutliersComputed ==
    /\ Computed("_get_outliers_impl") /\ ~last.raised
    /\ ~IsEmpty(last.df) /\ last.key.metric \in last.df.cols

\* the mean of the metric over all rows, the squared deviation of a row, and
\* the sum of the squared deviations, taken straight from the rows
RefMean(rows, metric) == QDiv(RefSum(rows, metric, 1..Len(rows)), QInt(Len(rows)))
RefSqDev(rows, metric, i) ==
    LET dv == QSub(Tenths(rows[i][metric]), RefMean(rows, metric)) IN QMul(dv, dv)
RefSumSq(rows, metric) ==
    SumFn([i \in 1..Len(rows) |-> RefSqDev(rows, metric, i)], 1..Len(rows))

\* the rows with |value - mean| / sigma > threshold for sigma * sigma = var > 0
\* and threshold >= 0
RefFlagged(rows, metric, var, threshold) ==
    {i \in 1..Len(rows) :
        QLt(QMul(QInt(threshold * threshold), var), RefSqDev(rows, metric, i))}

\* C15: over a non-empty table whose rows all carry the same value of the
\* metric, a single row included, get_outliers returns no outliers, a
\* no-variation note and the number of rows as total_records
C15_NoVariationGivesNote ==
    (OutliersComputed /\ \A i \in 1..Len(last.df.rows) :
            last.df.rows[i][last.key.metric] = last.df.rows[1][last.key.metric]) =>
        /\ last.value.kind = "outliers_note"
        /\ last.value.outliers = <<>>
        /\ last.value.note = <<"No variation in data">>
        /\ last.value.total_records = Len(last.df.rows)

\* a successful OutlierResult of the last call
IsOutlierResult == OutliersComputed /\ last.value.kind = "outliers"

\* C16: a successful OutlierResult lists at most 20 outliers in non-increasing
\* order of z_score, each a row with z-score above the threshold, and they are
\* the rows of highest z-score among all rows above the threshold;
\* total_outliers counts all rows above the threshold
C16_OutlierListBoundedAndSorted ==
    IsOutlierResult =>
        LET rows == last.df.rows
            metric == last.key.metric
            o == last.value.outliers
            var == QDiv(RefSumSq(rows, metric), QInt(Len(rows) - 1))
            F == IF Len(rows) < 2 THEN {} ELSE RefFlagged(rows, metric, var, last.key.threshold)
            zsq(i) == QDiv(RefSqDev(rows, metric, i), var)
        IN /\ Len(o) <= 20
           /\ Len(o) = IF Cardinality(F) < 20 THEN Cardinality(F) ELSE 20
           /\ last.value.total_outliers = Cardinality(F)
           /\ \A j \in 1..(Len(o) - 1) : QLe(o[j + 1].z_score.sq, o[j].z_score.sq)
           /\ \A j \in 1..Len(o) :
                 /\ \E i \in F : /\ rows[i].state = o[j].state
                                 /\ rows[i].year = o[j].year
                                 /\ rows[i].cancer_type = o[j].cancer_type
                                 /\ Tenths(rows[i][metric]) = o[j].value
                                 /\ zsq(i) = o[j].z_score.sq
                 /\ Cardinality({i \in F : QLt(o[j].z_score.sq, zsq(i))}) <= j - 1

\* more than 20 rows are above the threshold, 20 are listed, not all equal in z
C16_Witness ==
    /\ IsOutlierResult
    /\ last.value.total_outliers > 20
    /\ Len(last.value.outliers) = 20
    /\ QLt(last.value.outliers[20].z_score.sq, last.value.outliers[1].z_score.sq)

\* what an OutlierResult says of sigma and of the rows above the threshold,
\* for sigma * sigma = var
OutlierResultUses(var) ==
    LET rows == last.df.rows
        metric == last.key.metric
        o == last.value.outliers
        F == RefFlagged(rows, metric, var, last.key.threshold)
    IN /\ last.value.dataset_mean = RefMean(rows, metric)
       /\ last.value.dataset_std.k = "sqrt" /\ last.value.dataset_std.sq = var
       /\ last.value.total_outliers = Cardinality(F)
       /\ \A j \in 1..Len(o) :
             \E i \in F : /\ rows[i].state = o[j].state
                           /\ rows[i].year = o[j].year
                           /\ Tenths(rows[i][metric]) = o[j].value
       /\ Cardinality(F) <= 20 => Len(o) = Cardinality(F)

\* C17 as stated: sigma is the population standard deviation (divisor N)
C17_PopulationStd ==
    IsOutlierResult =>
        OutlierResultUses(QDiv(RefSumSq(last.df.rows, last.key.metric),
                               QInt(Len(last.df.rows))))

\* C17: get_outliers flags a row exactly when |value - mean| / sigma >
\* threshold for the mean over all rows and sigma the sample standard deviation
\* (divisor N - 1), which dataset_std reports; over a single row sigma is nan
\* and no row is flagged
C17_SampleStd ==
    IsOutlierResult =>
        IF Len(last.df.rows) >= 2
        THEN OutlierResultUses(QDiv(RefSumSq(last.df.rows, last.key.metric),
                                    QInt(Len(last.df.rows) - 1)))
        ELSE /\ last.value.dataset_std.k = "nan"
             /\ last.value.outliers = <<>>
             /\ last.value.total_outliers = 0

\* a row is above the threshold by the population sigma and is not flagged,
\* the sample sigma being larger
C17_Witness ==
    /\ IsOutlierResult /\ Len(last.df.rows) >= 2
    /\ last.value.total_outliers <
           Cardinality(RefFlagged(last.df.rows, last.key.metric,
                                  QDiv(RefSumSq(last.df.rows, last.key.metric),
                                       QInt(Len(last.df.rows))),
                                  last.key.threshold))

\* get_correlations computed a result over a non-empty table
IsCorrResult ==
    /\ Computed("_get_correlations_impl") /\ ~last.raised
    /\ ~IsEmpty(last.df) /\ last.value.kind = "correlations"

\* the four metrics in the fixed order of the claims
RefMetrics == <<"mortality_count", "mortality_rate", "incidence_rate", "incidence_count">>

\* C18: over a non-empty table the correlations mapping has exactly one entry
\* for each of the 6 pairs of distinct metrics, keyed metric1_vs_metric2 with
\* metric1 before metric2 in the fixed order, none for a metric with itself and
\* no mirrored one; an entry's correlation is the matrix cell [metric1][metric2]
C18_UpperTrianglePairs ==
    IsCorrResult =>
        LET c == last.value.correlations
            m == last.value.correlation_matrix
        IN /\ DOMAIN c = {<<"mortality_count", "_vs_", "mortality_rate">>,
                          <<"mortality_count", "_vs_", "incidence_rate">>,
                          <<"mortality_count", "_vs_", "incidence_count">>,
                          <<"mortality_rate", "_vs_", "incidence_rate">>,
                          <<"mortality_rate", "_vs_", "incidence_count">>,
                          <<"incidence_rate", "_vs_", "incidence_count">>}
           /\ Cardinality(DOMAIN c) = 6
           /\ \A key \in DOMAIN c :
                 /\ c[key].metric1 = key[1] /\ c[key].metric2 = key[3]
                 /\ c[key].correlation = m[key[1]][key[3]]

\* a result with a negative and a positive correlation among its entries
C18_Witness ==
    /\ IsCorrResult
    /\ last.value.correlations[<<"mortality_count", "_vs_", "incidence_rate">>].correlation.sgn = -1
    /\ last.value.correlations[<<"mortality_rate", "_vs_", "incidence_rate">>].correlation.sgn = 1

\* the float 1.0 and nan as a correlation value
RefOne == [k |-> "sqrt", sgn |-> 1, sq |-> QInt(1)]
RefNan == [k |-> "nan", sgn |-> 0, sq |-> QInt(0)]

\* the metric has different values in two rows
RefVaries(rows, a) == \E i, j \in 1..Len(rows) : rows[i][a] # rows[j][a]

\* C19 as stated: the matrix is symmetric and its diagonal is 1.0 for each of
\* the four metrics, a metric of identical values included
C19_SymmetricUnitDiagonal ==
    IsCorrResult =>
        LET m == last.value.correlation_matrix
        IN /\ \A a, b \in DOMAIN m : m[a][b] = m[b][a]
           /\ \A a \in DOMAIN m : m[a][a] = RefOne

\* C19: the matrix has the same cell at [a][b] and [b][a]; the diagonal cell of
\* a metric is 1.0 when its values differ between rows, and nan, with every
\* other cell of its row and column, when they are identical in every row
C19_SymmetricDiagonalOneOrNan ==
    IsCorrResult =>
        LET m == last.value.correlation_matrix
            rows == last.df.rows
        IN /\ DOMAIN m = {RefMetrics[i] : i \in 1..4}
           /\ \A a, b \in DOMAIN m : m[a][b] = m[b][a]
           /\ \A a \in DOMAIN m :
                 IF RefVaries(rows, a) THEN m[a][a] = RefOne
                 ELSE \A b \in DOMAIN m : m[a][b] = RefNan

\* one metric is constant over the rows and has nan on the diagonal, another
\* varies and has 1.0
C19_Witness ==
    /\ IsCorrResult /\ Len(last.df.rows) >= 2
    /\ last.value.correlation_matrix["mortality_rate"]["mortality_rate"] = RefNan
    /\ last.value.correlation_matrix["incidence_rate"]["incidence_rate"] = RefOne

\* the strength of a correlation value by |r|, from its square
RefStrength(r) ==
    IF QLe(Q(64, 100), r.sq) THEN "very strong"
    ELSE IF QLe(Q(36, 100), r.sq) THEN "strong"
    ELSE IF QLe(Q(16, 100), r.sq) THEN "moderate"
    ELSE IF QLe(Q(4, 100), r.sq) THEN "weak"
    ELSE "very weak"

\* C20: for every correlation value r in [-1, 1] the label is
\* '<strength> <direction> correlation', the strength by |r| (>= 0.8 very
\* strong, >= 0.6 strong, >= 0.4 moderate, >= 0.2 weak, else very weak), the
\* direction by the sign of r; a value that is not negative is never labelled
\* negative
C20_LabelByStrengthAndSign ==
    last.op = "_interpret_correlation" =>
        last.value.label =
            <<RefStrength(last.value.r), " ",
              IF last.value.r.sgn < 0 THEN "negative" ELSE "positive", " correlation">>

\* ---------------------------------------------------------------------------
\* C21  A stored value is what every later get of its key returns, whatever
\* time has passed and whatever timeout set was given, until a set of that key,
\* a delete of that key or a clear; after delete(key) or clear() get(key)
\* gives None; no other step removes, changes or adds an entry.
C21_CacheOpsHonest ==
    /\ last.op = "cache_get" =>
          last.value = IF last.ckey \in DOMAIN resultCache
                       THEN resultCache[last.ckey] ELSE [kind |-> "none"]
    /\ last.op = "cache_set" =>
          last.ckey \in DOMAIN resultCache /\ resultCache[last.ckey] = last.value
    /\ last.op = "cache_delete" => last.ckey \notin DOMAIN resultCache
    /\ last.op = "cache_clear" => DOMAIN resultCache = {}

C21_StepKeepsEntries ==
    /\ \A k \in DOMAIN resultCache :
          \/ k \in DOMAIN resultCache' /\ resultCache'[k] = resultCache[k]
          \/ /\ budget' < budget
             /\ \/ last'.op \in {"cache_set", "cache_delete"} /\ last'.ckey = k
                \/ last'.op = "cache_clear"
    /\ \A k \in DOMAIN resultCache' \ DOMAIN resultCache :
          budget' < budget /\ last'.op = "cache_set" /\ last'.ckey = k

C21_EntriesPersist == [](C21_CacheOpsHonest) /\ [][C21_StepKeepsEntries]_vars

\* a get returns a value long after the timeout its set was given has run out
C21_Witness ==
    /\ last.op = "cache_get" /\ last.value.kind = "raw"
    /\ last.value.timeout # None
    /\ now > last.value.at + last.value.timeout[1]

\* the calls SpecKeys makes, and what the implementation of a call gives over
\* the database as it is
KeyCalls ==
    {ResultKey("_calculate_trends_impl", state, None, metric, None, 0, 0, <<>>) :
        state \in {None, Some("B")}, metric \in MetricArgs}
    \cup {ResultKey("_get_top_states_impl", None, None, metric, None, 1, 0, <<>>) :
        metric \in MetricArgs}
    \cup {ResultKey("_compare_states_impl", None, None, metric, None, 0, 0, <<"A", "B">>) :
        metric \in MetricArgs}
    \cup {ResultKey("_get_outliers_impl", None, None, metric, None, 0, 0, <<>>) :
        metric \in MetricArgs}
    \cup {ResultKey("_get_correlations_impl", None, None, "", None, 0, 0, <<>>)}

KeyOfCall == [c \in KeyCalls |-> CacheKey(c)]

RefResult(call) ==
    (CASE call.fn = "_calculate_trends_impl" ->
            CalculateTrendsImpl(<<>>, FALSE, call.state, call.cancer_type, call.metric)
       [] call.fn = "_get_top_states_impl" ->
            GetTopStatesImpl(<<>>, FALSE, call.metric, call.cancer_type, call.year, call.limit)
       [] call.fn = "_compare_states_impl" ->
            CompareStatesImpl(<<>>, FALSE, call.states, call.metric, call.cancer_type)
       [] call.fn = "_get_outliers_impl" ->
            GetOutliersImpl(<<>>, FALSE, call.metric, call.threshold)
       [] OTHER -> GetCorrelationsImpl(<<>>, FALSE)).value

\* ---------------------------------------------------------------------------
\* C22  The cache key is made of the function's name and the text of the
\* positional and keyword arguments.  Once an operation has returned a result
\* for some arguments, a later call of it with the same arguments returns the
\* stored result and the function is not run again; what is stored under the
\* key of one operation and argument list is that call's own result, so no
\* call is answered with the result of another operation or argument list.
C22_EntriesAreOwnResults ==
    /\ \A c1 \in KeyCalls, c2 \in KeyCalls : KeyOfCall[c1] = KeyOfCall[c2] => c1 = c2
    /\ DOMAIN resultCache \subseteq {KeyOfCall[c] : c \in KeyCalls}
    /\ \A c \in KeyCalls :
          KeyOfCall[c] \in DOMAIN resultCache => resultCache[KeyOfCall[c]] = RefResult(c)
    /\ last.op \in AggOps =>
          /\ last.key \in KeyCalls /\ last.ckey = KeyOfCall[last.key]
          /\ ~last.raised
          /\ last.ckey \in DOMAIN resultCache /\ resultCache[last.ckey] = last.value

C22_HitSkipsFunction ==
    (budget' < budget /\ last'.ckey \in DOMAIN resultCache) =>
        /\ last'.hit /\ last'.value = resultCache[last'.ckey]
        /\ resultCache' = resultCache /\ dataCache' = dataCache

C22_KeyedByNameAndArguments ==
    [](C22_EntriesAreOwnResults) /\ [][C22_HitSkipsFunction]_vars

\* a call is answered from the cache with a result (no error object) while
\* the cache also holds a different result of the same operation
C22_Witness ==
    /\ last.op \in AggOps /\ last.hit /\ last.value.kind # "error"
    /\ \E c \in KeyCalls :
          /\ c.fn = last.op /\ c # last.key
          /\ KeyOfCall[c] \in DOMAIN resultCache
          /\ resultCache[KeyOfCall[c]] # last.value

\* ---------------------------------------------------------------------------
\* C23  Two requests make the same call at the same time on a cache with no
\* entry for it, the database unchanged: however their lookups, computations
\* and writes interleave, a request that has returned holds the value the
\* cache keeps under its key (so both return the same result), and a write
\* never removes or alters an entry, of this key or of another.
C23_ReturnedIsCached ==
    \A r \in DOMAIN reqs :
        reqs[r].pc = "done" =>
            /\ CacheKey(reqs[r].call) \in DOMAIN resultCache
            /\ resultCache[CacheKey(reqs[r].call)] = reqs[r].value
            /\ \A q \in DOMAIN reqs :
                  (reqs[q].pc = "done" /\ reqs[q].call = reqs[r].call) =>
                      reqs[q].value = reqs[r].value

C23_WritesKeepEntries ==
    /\ \A k \in DOMAIN resultCache :
          k \in DOMAIN resultCache' /\ resultCache'[k] = resultCache[k]
    /\ \A k \in DOMAIN dataCache :
          k \in DOMAIN dataCache' /\ dataCache'[k] = dataCache[k]

C23_SameResultInEveryInterleaving ==
    [](C23_ReturnedIsCached) /\ [][C23_WritesKeepEntries]_vars

\* both requests missed, computed and wrote, one from the queried DataFrame and
\* one from the cached text, and the third request's entry is there as well
C23_Witness ==
    /\ Len(reqs) = 3
    /\ \A r \in DOMAIN reqs : reqs[r].pc = "done" /\ ~reqs[r].hit
    /\ reqs[1].dhit # reqs[2].dhit
    /\ reqs[1].value.kind \notin {"error", "none"}
    /\ Cardinality(DOMAIN resultCache) = 2

\* ---------------------------------------------------------------------------
\* C24  get_cancer_data returns exactly the stored rows that match every filter
\* supplied, whatever its value (year 0 and the empty string too), None being
\* no restriction; so the top states asked for a year are states with rows of
\* that year.
C24_FiltersSelectMatchingRows ==
    /\ last.op = "get_cancer_data" =>
          last.df.rows = SelectSeq(db, LAMBDA r :
              Matches(r, last.key.state, last.key.year, last.key.cancer_type))
    /\ (Computed("_get_top_states_impl") /\ last.key.year # None
            /\ last.value.kind = "list") =>
          \A i \in 1..Len(last.value.items) :
              \E j \in 1..Len(db) :
                  /\ db[j].state = last.value.items[i].state
                  /\ db[j].year = last.key.year[1]

\* ---------------------------------------------------------------------------
\* C25  What get_outliers does to its working table (the column z_score) is
\* not seen by later callers: the data cache holds texts whose records have
\* the eight schema columns only, and a get_cancer_data call served from the
\* cache returns the rows of the table with those columns and no z_score.
C25_FetchedTableUnchanged ==
    /\ \A k \in DOMAIN dataCache :
          /\ dataCache[k].str
          /\ \A i \in 1..Len(dataCache[k].records) :
                DOMAIN dataCache[k].records[i] = AllCols
    /\ (last.op = "get_cancer_data" /\ last.hit) =>
          /\ "z_score" \notin last.df.cols
          /\ last.df.cols \subseteq AllCols
          /\ last.df.rows = db

\* get_outliers has added z_score to its working table of several rows, and
\* the next get_cancer_data() is served from the cache
C25_Witness ==
    /\ last.op = "get_cancer_data" /\ last.hit
    /\ last.before.kind = "outliers" /\ last.before.total_outliers > 0
    /\ Len(last.df.rows) >= 2 /\ last.df.cols = AllCols

\* the handlers the claim names
GetRoutes ==
    {"/api/states", "/api/cancer-types", "/api/years", "/api/data",
     "/api/analytics/trends", "/api/analytics/top-states",
     "/api/analytics/outliers", "/api/analytics/correlations"}

\* ---------------------------------------------------------------------------
\* C26  Each of the eight GET handlers answers 200 with a JSON body that has a
\* 'success' field, whether the table is populated, empty or its queries fail;
\* a 500 is answered only when the service call raised.
C26_HandlersAnswer200 ==
    last.http.status # 0 =>
        /\ last.http.route \in GetRoutes
        /\ last.http.status = 200
        /\ "success" \in DOMAIN last.http.body
        /\ last.http.status = 500 => last.raised

\* a handler answers 200 although its query raised, with an error object or an
\* empty list as the data
C26_Witness ==
    /\ last.http.status = 200 /\ last.dberr
    /\ last.http.body.success
    /\ last.http.body.data.kind \in {"error", "list"}

\* ---------------------------------------------------------------------------
\* C27  create_app completes for every configuration name the repository uses,
\* 'testing' included: with the DB_* variables set, a run that has ended has
\* returned the app with the API and the web blueprint registered.
C27_StartupCompletes ==
    (app.pc \in {"returned", "raised"} /\ app.missing = {}) =>
        /\ app.pc = "returned"
        /\ app.blueprints = {"api", "web"}

\* a call made while the database answers returns what the operation gives
\* over the rows now in the table
C28_CallReflectsDatabase ==
    (budget' < budget /\ ~dbFailing /\ last'.op \in AggOps) =>
        last'.value = RefResult(last'.key)

\* ---------------------------------------------------------------------------
\* C28  A data-source failure is not remembered: once the database answers
\* again, a call with the same arguments reflects the rows now in the table
\* and not the empty Table or the error result of the time of the failure.
C28_FailureNotRemembered == [][C28_CallReflectsDatabase]_vars

\* ---------------------------------------------------------------------------
\* C29  Every connection get_connection opens is closed by the time the
\* with-block is left, whether the block returns or raises any exception; when
\* connecting fails no close is attempted and the error reaches the caller; no
\* call holds more than one open connection at any time.
C29_ConnectionsClosed ==
    \A c \in DOMAIN conns :
        LET call == conns[c]
        IN /\ call.opened <= 1
           /\ call.opened - call.closed \in {0, 1}
           /\ call.pc = "left" =>
                 /\ call.closed = call.opened
                 /\ call.closes = call.opened
                 /\ call.opened = 0 => call.out = "psycopg2.Error"
                 /\ call.opened = 1 => call.out = (IF call.pending = "returns" THEN ""
                                                   ELSE call.pending)
           /\ call.pc \in {"block", "exit"} => call.opened = 1 /\ call.closed = 0

\* one call has left its block by an exception that is no psycopg2.Error with
\* its connection closed, another could not connect
C29_Witness ==
    \E c1 \in DOMAIN conns, c2 \in DOMAIN conns :
        /\ conns[c1].pc = "left" /\ conns[c1].out = "Exception"
        /\ conns[c1].opened = 1 /\ conns[c1].closed = 1
        /\ conns[c2].pc = "left" /\ conns[c2].opened = 0 /\ conns[c2].closes = 0
        /\ conns[c2].out = "psycopg2.Error"

\* ---------------------------------------------------------------------------
\* C30  For every integer limit the request layer can pass to get_top_states,
\* 0 and negative values included, the result has at most max(limit, 0)
\* entries.
C30_AtMostLimitEntries ==
    (last.op = "_get_top_states_impl" /\ last.value.kind = "list") =>
        Len(last.value.items) <= (IF last.key.limit > 0 THEN last.key.limit ELSE 0)

====
